---- MODULE Spec2Model ----
(***************************************************************************)
(* Request integrity and authentication layer of sumup/acp.                *)
(*                                                                         *)
(* A handler is built once by NewCheckoutHandler or                        *)
(* NewDelegatedPaymentHandler from a list of options.  Each inbound        *)
(* request then runs through the middleware chain that applyMiddleware     *)
(* composed, and finally through the route handler.                        *)
(*                                                                         *)
(* Representation.                                                         *)
(*  - Text (header values, bodies, signing payloads) is a sequence of      *)
(*    tokens; every token is a record with a field k naming its kind.      *)
(*  - A time.Time is [inst, off]: the instant in clock ticks and the zone  *)
(*    offset in ticks.  Its RFC3339 rendering shows the local time         *)
(*    inst + off together with off.                                        *)
(*  - A time.Duration is a signed integer of DurationBits bits (int64      *)
(*    nanoseconds in Go, scaled down); Time.Sub saturates and unary minus  *)
(*    wraps, as in Go.                                                     *)
(*  - HMAC-SHA256 is an injective constructor over (key, payload).         *)
(***************************************************************************)
EXTENDS Integers, Sequences, FiniteSets, TLC

VARIABLES
    pc,      \* "new" | "panicked" | "idle" | "serving" | "done"
    cfg,     \* config of the constructed handler
    chain,   \* execution order produced by applyMiddleware, outermost first
    now,     \* reading of cfg.clock
    req,     \* the request being served, as the client sent it
    rbody,   \* r.Body as the running request currently holds it
    stage,   \* what remains of chain for the running request
    log,     \* calls made while serving the running request, in order
    resp,    \* responses written for the running request, in order
    memory,      \* the example checkout store (memoryService)
    vault,       \* the example delegated payment store (delegatedMemoryService)
    goroutines,  \* the calls in flight, each with its own locals
    returns      \* what the calls of the stores returned and sent

handlerVars == <<pc, cfg, chain, now, req, rbody, stage, log, resp>>
serviceVars == <<memory, vault, goroutines, returns>>
vars == <<pc, cfg, chain, now, req, rbody, stage, log, resp,
          memory, vault, goroutines, returns>>

----------------------------------------------------------------------------
(* Bounds and scale *)

DurationBits == 5
MaxTicks == 1
SkewChoice == 2

DefaultMaxClockSkew == 5

MaxDuration == 2 ^ (DurationBits - 1) - 1
MinDuration == 0 - 2 ^ (DurationBits - 1)
StartTime == 2 * (MaxDuration + 1) + 4

----------------------------------------------------------------------------
(* Text *)

SP == [k |-> "sp"]
Word(s) == [k |-> "w", v |-> s]
NoText == << >>

RECURSIVE TrimLeft(_)
TrimLeft(s) ==
    IF s # << >> /\ Head(s).k = "sp" THEN TrimLeft(Tail(s)) ELSE s

RECURSIVE TrimRight(_)
TrimRight(s) ==
    IF s # << >> /\ s[Len(s)].k = "sp"
    THEN TrimRight(SubSeq(s, 1, Len(s) - 1))
    ELSE s

\* Mutation of TrimSpace: the header value is taken as sent.
NoTrim(s) == s

TrimSpace(s) == TrimRight(TrimLeft(s))

RECURSIVE IndexOfSpace(_, _)
IndexOfSpace(s, i) ==
    IF i > Len(s) THEN 0
    ELSE IF s[i].k = "sp" THEN i
    ELSE IndexOfSpace(s, i + 1)

\* Mutation of Cut: the spaces that follow the separator are dropped too.
CutFields(s) ==
    LET i == IndexOfSpace(s, 1)
    IN  IF i = 0
        THEN [before |-> s, after |-> << >>, found |-> FALSE]
        ELSE [before |-> SubSeq(s, 1, i - 1),
              after  |-> TrimLeft(SubSeq(s, i + 1, Len(s))),
              found  |-> TRUE]

\* strings.Cut(s, " ")
Cut(s) ==
    LET i == IndexOfSpace(s, 1)
    IN  IF i = 0
        THEN [before |-> s, after |-> << >>, found |-> FALSE]
        ELSE [before |-> SubSeq(s, 1, i - 1),
              after  |-> SubSeq(s, i + 1, Len(s)),
              found  |-> TRUE]

Lower(w) ==
    CASE w = "Bearer" -> "bearer"
      [] w = "BEARER" -> "bearer"
      [] OTHER -> w

\* strings.EqualFold(schema, "Bearer")
\* Mutation of EqualFoldBearer: any scheme is taken for Bearer.
AnyScheme(s) == TRUE

EqualFoldBearer(s) ==
    /\ Len(s) = 1
    /\ s[1].k = "w"
    /\ Lower(s[1].v) = Lower("Bearer")

----------------------------------------------------------------------------
(* Errors (errors.go) *)

newError(typ, code, message, status) ==
    [code |-> code, message |-> message, status |-> status,
     type |-> typ, retryAfter |-> 0]

NewHTTPError(status, typ, code, message) == newError(typ, code, message, status)

NewInvalidRequestError(message) ==
    newError("invalid_request", "invalid_request", message, 400)

NewProcessingError(message) ==
    newError("processing_error", "processing_error", message, 500)

NewServiceUnavailableError(message) ==
    newError("service_unavailable", "service_unavailable", message, 503)

NewRateLimitExceededError(message) ==
    newError("rate_limit_exceeded", "rate_limit_exceeded", message, 429)

\* WithRetryAfter, applied to a built error; d in milliseconds.
WithRetryAfter(e, d) == [e EXCEPT !.retryAfter = d]

\* Mutation of retryAfterSeconds: the duration is cut to whole seconds.
retryAfterWholeSeconds(d) == IF d <= 0 THEN 0 ELSE d \div 1000

retryAfterSeconds(d) ==
    IF d <= 0 THEN 0
    ELSE LET seconds == (d \div 1000) + (IF d % 1000 # 0 THEN 1 ELSE 0)
         IN  IF seconds <= 0 THEN 1 ELSE seconds

\* http.ResponseWriter.WriteHeader panics for a code outside 100..999.
ValidStatus(code) == code >= 100 /\ code <= 999

\* The handler panicked before anything was put on the wire.
Panicked ==
    [code |-> "", message |-> "", status |-> 0, type |-> "", retryAfterHeader |-> 0]

\* The response writeJSONError puts on the wire.
writeJSONError(payload) ==
    IF ~ValidStatus(payload.status) THEN Panicked
    ELSE [code |-> payload.code,
          message |-> payload.message,
          status |-> payload.status,
          type |-> payload.type,
          retryAfterHeader |-> retryAfterSeconds(payload.retryAfter)]

writeJSON(status) ==
    [code |-> "", message |-> "", status |-> status, type |-> "",
     retryAfterHeader |-> 0]

----------------------------------------------------------------------------
(* Time *)

Time(inst, off) == [inst |-> inst, off |-> off]

\* Mutation of UTC: the time keeps its zone.
KeepZone(t) == t

\* Time.UTC: the same instant, shown in UTC.
UTC(t) == Time(t.inst, 0)

\* Time.Sub: the difference as a Duration, saturated at the ends of its range.
Sub(t, u) ==
    LET d == t.inst - u.inst
    IN  IF d > MaxDuration THEN MaxDuration
        ELSE IF d < MinDuration THEN MinDuration
        ELSE d

\* Unary minus on a Duration: two's complement, so -MinDuration = MinDuration.
Neg(d) ==
    LET m == 2 ^ DurationBits
        r == (0 - d) % m
    IN  IF r > MaxDuration THEN r - m ELSE r

AbsDuration(d) == IF d < 0 THEN Neg(d) ELSE d

\* Time.Format(time.RFC3339Nano): local wall time and zone offset.
FormatRFC3339(t) == [k |-> "t", off |-> t.off, local |-> t.inst + t.off]

\* signature.ParseTimestamp
ParseTimestamp(value) ==
    IF value = << >> THEN [ok |-> FALSE, ts |-> Time(0, 0)]
    ELSE IF Len(value) = 1 /\ value[1].k = "t"
    THEN [ok |-> TRUE, ts |-> Time(value[1].local - value[1].off, value[1].off)]
    ELSE [ok |-> FALSE, ts |-> Time(0, 0)]

----------------------------------------------------------------------------
(* Bodies and canonical JSON *)

\* Chunks of a raw body: insignificant whitespace, one JSON object document
\* with its members in source order, a stray closing bracket, bytes that are
\* no JSON at all.
WS == [k |-> "ws"]
Doc(members) == [k |-> "doc", members |-> members]
Close == [k |-> "close"]
Junk == [k |-> "junk"]

RECURSIVE SkipWS(_)
SkipWS(raw) ==
    IF raw # << >> /\ Head(raw).k = "ws" THEN SkipWS(Tail(raw)) ELSE raw

\* A JSON document in a stream: an object as a client wrote it ("doc"), an
\* object in canonical form ("cdoc"), or the literal null.
IsDocument(c) == c.k \in {"doc", "cdoc"} \/ (c.k = "w" /\ c.v = "null")

\* json.Decoder.Decode: the first document of the stream.
Decode(raw) ==
    LET s == SkipWS(raw)
    IN  IF s = << >> THEN [ok |-> FALSE, eof |-> TRUE, doc |-> Doc(<< >>), rest |-> s]
        ELSE IF IsDocument(Head(s))
        THEN [ok |-> TRUE, eof |-> FALSE, doc |-> Head(s), rest |-> Tail(s)]
        ELSE [ok |-> FALSE, eof |-> FALSE, doc |-> Doc(<< >>), rest |-> s]

\* json.Decoder.More: a next byte exists and is neither ']' nor '}'.
More(rest) ==
    LET s == SkipWS(rest)
    IN  s # << >> /\ Head(s).k # "close"

RECURSIVE Insert(_, _)
Insert(m, sorted) ==
    IF sorted = << >> THEN <<m>>
    ELSE IF m[1] < Head(sorted)[1] THEN <<m>> \o sorted
    ELSE IF m[1] = Head(sorted)[1] THEN <<m>> \o Tail(sorted)
    ELSE <<Head(sorted)>> \o Insert(m, Tail(sorted))

RECURSIVE SortMembers(_, _)
SortMembers(members, acc) ==
    IF members = << >> THEN acc
    ELSE SortMembers(Tail(members), Insert(Head(members), acc))

\* canonicaljson.Marshal of the decoded value: members ordered by key, no
\* whitespace; nil gives null.
Marshal(doc) ==
    IF doc.k = "w" THEN <<doc>>
    ELSE <<[k |-> "cdoc", members |-> SortMembers(doc.members, << >>)]>>

\* Mutation of CanonicalizeJSONBody: an empty body is no JSON document.
CanonicalizeNonEmpty(raw) ==
    LET d == Decode(raw)
    IN  IF ~d.ok \/ More(d.rest) THEN [ok |-> FALSE, bytes |-> << >>]
        ELSE [ok |-> TRUE, bytes |-> Marshal(d.doc)]

\* Mutation of CanonicalizeJSONBody: a body that decodes is signed as sent.
CanonicalizeVerbatim(raw) ==
    IF SkipWS(raw) = << >> THEN [ok |-> TRUE, bytes |-> <<Word("null")>>]
    ELSE [ok |-> Decode(raw).ok /\ ~More(Decode(raw).rest),
          bytes |-> IF Decode(raw).ok /\ ~More(Decode(raw).rest) THEN raw ELSE << >>]

\* signature.CanonicalizeJSONBody
CanonicalizeJSONBody(raw) ==
    IF SkipWS(raw) = << >> THEN [ok |-> TRUE, bytes |-> <<Word("null")>>]
    ELSE LET d == Decode(raw)
         IN  IF ~d.ok THEN [ok |-> FALSE, bytes |-> << >>]
             ELSE IF More(d.rest) THEN [ok |-> FALSE, bytes |-> << >>]
             ELSE [ok |-> TRUE, bytes |-> Marshal(d.doc)]

\* r.Body: nil, a reader over bytes, or a reader whose Read fails.
NilBody == [bytes |-> << >>, present |-> FALSE, broken |-> FALSE]
Reader(bytes) == [bytes |-> bytes, present |-> TRUE, broken |-> FALSE]
BrokenReader == [bytes |-> << >>, present |-> TRUE, broken |-> TRUE]

\* Mutation of ReadAndBufferBody: the body is read and not put back.
ReadAndDrain(body) ==
    IF ~body.present THEN [ok |-> TRUE, raw |-> << >>, body |-> Reader(<< >>)]
    ELSE IF body.broken THEN [ok |-> FALSE, raw |-> << >>, body |-> body]
    ELSE [ok |-> TRUE, raw |-> body.bytes, body |-> Reader(<< >>)]

\* signature.ReadAndBufferBody: the bytes read and the body left on the request.
ReadAndBufferBody(body) ==
    IF ~body.present THEN [ok |-> TRUE, raw |-> << >>, body |-> Reader(<< >>)]
    ELSE IF body.broken THEN [ok |-> FALSE, raw |-> << >>, body |-> body]
    ELSE [ok |-> TRUE, raw |-> body.bytes, body |-> Reader(body.bytes)]

----------------------------------------------------------------------------
(* Signing *)

Dot == Word(".")

\* Mutation of BuildSigningPayload: the timestamp keeps its own zone.
BuildSigningPayloadLocal(ts, canonicalBody) ==
    <<FormatRFC3339(ts)>> \o <<Dot>> \o canonicalBody

\* signature.BuildSigningPayload
BuildSigningPayload(ts, canonicalBody) ==
    <<FormatRFC3339(UTC(ts))>> \o <<Dot>> \o canonicalBody

\* hmac.New(sha256.New, key) over payload
HMAC(key, payload) == [payload |-> payload, key |-> key]

\* base64.RawURLEncoding.EncodeToString
EncodeToString(mac) == <<[k |-> "b64", mac |-> mac]>>

\* base64.RawURLEncoding.DecodeString
DecodeString(s) ==
    IF Len(s) = 1 /\ s[1].k = "b64"
    THEN [ok |-> TRUE, mac |-> s[1].mac]
    ELSE [ok |-> FALSE, mac |-> HMAC("", << >>)]

\* signFixture: what a client holding key sends as Signature.
signFixture(key, ts, canonical) ==
    EncodeToString(HMAC(key, BuildSigningPayload(ts, canonical)))

\* HMACVerifier.Verify: "" when it returns nil, else the error text.
HMACVerifierVerify(key, material) ==
    IF key = "" THEN "signature: HMACSignatureVerifier requires a non-empty key"
    ELSE LET signingInput == BuildSigningPayload(material.Timestamp, material.CanonicalBody)
             expected == HMAC(key, signingInput)
             decoded == DecodeString(material.Signature)
         IN  IF ~decoded.ok THEN "signature: decode signature"
             ELSE IF decoded.mac # expected THEN "signature: invalid signature"
             ELSE ""

----------------------------------------------------------------------------
(* Configuration (checkout_validate.go) *)

NoVerifier == [key |-> "", kind |-> "none"]
HMACVerifier(key) == [key |-> key, kind |-> "hmac"]
VerifierFunc == [key |-> "", kind |-> "func"]

NoAuthenticator == "none"

WithSignatureVerifier(v) == [o |-> "verifier", verifier |-> v]
WithMaxClockSkew(skew) == [o |-> "skew", skew |-> skew]
WithRequireSignedRequests == [o |-> "require"]
WithAuthenticator(a) == [o |-> "auth", auth |-> a]
\* WithMiddleware(mw...); a middleware is named, "nil" is a nil one.
WithMiddleware(mw) == [o |-> "middleware", mw |-> mw]

\* cfg.webhook: nil, or what WithWebhookOptions keeps of its options.
NoWebhook == [endpoint |-> << >>, header |-> << >>, secret |-> "", configured |-> FALSE]

\* WebhookOptions{Endpoint, HeaderName, SecretKey}
WebhookOptions(endpoint, headerName, secretKey) ==
    [endpoint |-> endpoint, header |-> headerName, secret |-> secretKey,
     configured |-> TRUE]

\* WithWebhookOptions: endpoint and header name trimmed, the secret copied.
WithWebhookOptions(opts) ==
    [o |-> "webhook",
     webhook |-> WebhookOptions(TrimSpace(opts.endpoint), TrimSpace(opts.header),
                                opts.secret)]

\* The body of one Option applied to cfg.
ApplyOption(c, opt) ==
    CASE opt.o = "verifier" -> [c EXCEPT !.signatureVerifier = opt.verifier]
      [] opt.o = "skew"     -> [c EXCEPT !.maxClockSkew = opt.skew]
      [] opt.o = "require"  -> [c EXCEPT !.requireSignedRequests = TRUE]
      [] opt.o = "auth"     -> [c EXCEPT !.authenticator = opt.auth]
      [] opt.o = "webhook"  -> [c EXCEPT !.webhook = opt.webhook]
      [] opt.o = "middleware" ->
            [c EXCEPT !.middleware = @ \o SelectSeq(opt.mw, LAMBDA m : m # "nil")]

RECURSIVE ApplyOptions(_, _)
ApplyOptions(c, opts) ==
    IF opts = << >> THEN c
    ELSE ApplyOptions(ApplyOption(c, Head(opts)), Tail(opts))

\* WithMaxClockSkew panics while the option is being built.
OptionPanics(opts) ==
    \E i \in 1..Len(opts) :
        \/ opts[i].o = "skew" /\ opts[i].skew <= 0
        \/ /\ opts[i].o = "webhook"
           /\ \/ opts[i].webhook.endpoint = << >>
              \/ opts[i].webhook.header = << >>
              \/ opts[i].webhook.secret = ""

DefaultConfig ==
    [webhook |-> NoWebhook,
     signatureVerifier |-> NoVerifier,
     maxClockSkew |-> DefaultMaxClockSkew,
     requireSignedRequests |-> FALSE,
     authenticator |-> NoAuthenticator,
     middleware |-> << >>]

\* newSignatureMiddleware returns nil without a verifier.
newSignatureMiddleware(c) ==
    IF c.signatureVerifier.kind = "none" THEN << >> ELSE <<"signature">>

\* applyMiddleware: h = m(h) for each m in turn, so each middleware wraps
\* what was built before it.  The result lists the stages outermost first.
RECURSIVE applyMiddleware(_, _)
applyMiddleware(h, middleware) ==
    IF middleware = << >> THEN h
    ELSE applyMiddleware(<<Head(middleware)>> \o h, Tail(middleware))

----------------------------------------------------------------------------
(* Signature middleware *)

Call(by, call, arg, ret) == [by |-> by, call |-> call, arg |-> arg, ret |-> ret]

NoError == newError("", "", "", 0)

Material(sig, ts, canonicalBody) ==
    [Timestamp |-> ts, CanonicalBody |-> canonicalBody, Signature |-> sig]

\* Verifier.Verify: "" for nil.  funcErr is what a caller-supplied
\* VerifierFunc returns for this call.
Verify(verifier, material, funcErr) ==
    IF verifier.kind = "hmac" THEN HMACVerifierVerify(verifier.key, material)
    ELSE funcErr

Reject(err, calls, body) ==
    [body |-> body, err |-> err, calls |-> calls, next |-> FALSE]

Continue(calls, body) ==
    [body |-> body, err |-> NoError, calls |-> calls, next |-> TRUE]

\* The conditions the middleware branches on.
missingBoth(sig, timestampHeader) == sig = << >> /\ timestampHeader = << >>

\* Mutation of missingOne: only a request missing both headers is partial.
missingOneConjoined(sig, timestampHeader) == sig = << >> /\ timestampHeader = << >>

missingOne(sig, timestampHeader) == sig = << >> \/ timestampHeader = << >>

\* Mutation of skewExceeded: a skew equal to the bound is refused too.
skewReached(maxClockSkew, clock, ts) ==
    maxClockSkew > 0 /\ AbsDuration(Sub(clock, ts)) >= maxClockSkew

skewExceeded(maxClockSkew, clock, ts) ==
    maxClockSkew > 0 /\ AbsDuration(Sub(clock, ts)) > maxClockSkew

\* The errors it writes.
errSignatureRequired ==
    NewHTTPError(401, "invalid_request", "signature_required",
        "Signature and Timestamp headers are required")

errPartialHeaders ==
    NewHTTPError(400, "invalid_request", "invalid_signature",
        "Signature and Timestamp headers must both be provided")

errTimestampFormat ==
    NewHTTPError(400, "invalid_request", "invalid_signature", "Timestamp must be RFC3339")

errStaleTimestamp(maxClockSkew) ==
    NewHTTPError(401, "invalid_request", "stale_timestamp",
        "timestamp skew exceeds the maximum")

errUnreadableBody == NewInvalidRequestError("unable to read request body")

errMalformedBody == NewInvalidRequestError("request body must be valid JSON")

\* Mutation of errVerification: the verifier's error is the message.
errVerificationLeaky(verr) ==
    NewHTTPError(401, "invalid_request", "invalid_signature", verr)

errVerification(verr) ==
    NewHTTPError(401, "invalid_request", "invalid_signature", "signature verification failed")

\* The handler newSignatureMiddleware returns, run on request r whose body
\* is `body`, with the clock reading `clock`.
signatureMiddleware(c, r, body, clock, funcErr) ==
    LET sig == TrimSpace(r.Signature)
        timestampHeader == TrimSpace(r.Timestamp)
        parsed == ParseTimestamp(timestampHeader)
        ts == UTC(parsed.ts)
        rd == ReadAndBufferBody(body)
        canon == CanonicalizeJSONBody(rd.raw)
        material == Material(sig, ts, canon.bytes)
        verr == Verify(c.signatureVerifier, material, funcErr)
        readCall == <<Call("signature", "ReadAndBufferBody", << >>, IF rd.ok THEN "" ELSE "read error")>>
        verifyCall == <<Call("signature", "Verify", material, verr)>>
    IN  IF c.signatureVerifier.kind = "none" THEN Continue(<< >>, body)
        ELSE IF missingBoth(sig, timestampHeader)
        THEN IF c.requireSignedRequests
             THEN Reject(errSignatureRequired, << >>, body)
             ELSE Continue(<< >>, body)
        ELSE IF missingOne(sig, timestampHeader)
        THEN Reject(errPartialHeaders, << >>, body)
        ELSE IF ~parsed.ok
        THEN Reject(errTimestampFormat, << >>, body)
        ELSE IF skewExceeded(c.maxClockSkew, clock, ts)
        THEN Reject(errStaleTimestamp(c.maxClockSkew), << >>, body)
        ELSE IF ~rd.ok
        THEN Reject(errUnreadableBody, readCall, rd.body)
        ELSE IF ~canon.ok
        THEN Reject(errMalformedBody, readCall, rd.body)
        ELSE IF verr # ""
        THEN Reject(errVerification(verr), readCall \o verifyCall, rd.body)
        ELSE Continue(readCall \o verifyCall, rd.body)

----------------------------------------------------------------------------
(* Authentication middleware *)

ValidKey == <<Word("valid-key")>>

\* Authenticator.Authenticate for the authenticators of the tests:
\* "keys" accepts exactly ValidKey and otherwise returns a plain error,
\* "down" returns a structured service_unavailable error, "busy" returns a
\* rate limit error with a retry duration, wrapped with fmt.Errorf("%w").
Authenticate(auth, apiKey) ==
    CASE auth = "keys" /\ apiKey = ValidKey -> [kind |-> "nil", err |-> NoError]
      [] auth = "keys" /\ apiKey # ValidKey -> [kind |-> "plain", err |-> NoError]
      [] auth = "busy" ->
            [kind |-> "wrapped",
             err |-> WithRetryAfter(NewRateLimitExceededError("slow down"), 2500)]
      [] OTHER -> [kind |-> "structured",
                   err |-> NewHTTPError(503, "service_unavailable", "service_unavailable",
                               "auth service unavailable")]

\* Mutation of As: only an error that is itself a *Error is found.
AsItself(kind) == kind = "structured"

\* errors.As(err, &httpErr): err is, or wraps, a *Error.
As(kind) == kind \in {"structured", "wrapped"}

authenticationMiddleware(c, r) ==
    LET authHeader == TrimSpace(r.Authorization)
        cut == Cut(authHeader)
        schema == cut.before
        apiKey == cut.after
        res == Authenticate(c.authenticator, apiKey)
        authCall == <<Call("authentication", "Authenticate", apiKey, res)>>
    IN  IF c.authenticator = NoAuthenticator THEN Continue(<< >>, << >>)
        ELSE IF authHeader = << >>
        THEN Reject(NewHTTPError(401, "invalid_request", "missing_authorization",
                        "Authorization header is required"), << >>, << >>)
        ELSE IF ~cut.found \/ ~EqualFoldBearer(schema)
        THEN Reject(NewHTTPError(401, "invalid_request", "invalid_authorization",
                        "Authorization header must be in the format 'Bearer <api_key>'"),
                    << >>, << >>)
        ELSE IF apiKey = << >>
        THEN Reject(NewHTTPError(401, "invalid_request", "invalid_authorization",
                        "API key is required"), << >>, << >>)
        ELSE IF res.kind # "nil" /\ As(res.kind) THEN Reject(res.err, authCall, << >>)
        ELSE IF res.kind # "nil"
        THEN Reject(NewHTTPError(401, "invalid_request", "invalid_authorization",
                        "invalid API key"), authCall, << >>)
        ELSE Continue(authCall, << >>)

----------------------------------------------------------------------------
(* Route handler (handleCreate, handleDelegatePayment) *)

\* Fields the request schema knows; field 1 is required.
KnownFields == {1, 2}

\* req.Validate, with the decoder's DisallowUnknownFields
Validate(doc) ==
    /\ doc.k # "w"
    /\ \A i \in 1..Len(doc.members) : doc.members[i][1] \in KnownFields
    /\ \E i \in 1..Len(doc.members) : doc.members[i][1] = 1

\* decodeJSON: "" for nil, else the error text.
decodeJSON(body) ==
    LET d == Decode(body.bytes)
    IN  IF body.broken THEN "read error"
        ELSE IF ~d.ok
        THEN (IF d.eof THEN "request body required" ELSE "invalid JSON")
        ELSE IF More(d.rest) THEN "unexpected data after JSON body"
        ELSE IF ~Validate(d.doc) THEN "validation failed"
        ELSE ""

\* errors.New(text): an error that is not a *Error; message is its text.
New(text) == newError("", "", text, 0)

\* What the provider returns: nil, a plain error, a *Error with a retry
\* duration d (as itself or wrapped with fmt.Errorf("%w")), or a *Error
\* written as a struct literal, whose unexported status is zero.
DelegatePayment(outcome, d) ==
    CASE outcome = "ok" -> [kind |-> "nil", err |-> NoError]
      [] outcome = "plain" -> [kind |-> "plain", err |-> New("dial tcp 10.0.0.7:5432")]
      [] outcome = "plain2" -> [kind |-> "plain", err |-> New("card declined")]
      [] outcome = "wrapped" ->
            [kind |-> "wrapped",
             err |-> WithRetryAfter(NewHTTPError(409, "invalid_request",
                         "idempotency_conflict", "idempotency conflict"), d)]
      [] outcome = "literal" ->
            [kind |-> "structured",
             err |-> newError("invalid_request", "invalid_card", "card declined", 0)]
      [] OTHER -> [kind |-> "structured",
                   err |-> WithRetryAfter(NewServiceUnavailableError("provider unavailable"), d)]

\* writeServiceError: the *Error it hands to writeJSONError.
writeServiceError(res) ==
    IF As(res.kind) THEN res.err ELSE NewProcessingError("internal server error")

\* The route handler: the calls it makes, the error it writes if any, and
\* the response.  `outcome` and `d` are what the provider returns if reached.
routeHandler(body, outcome, d) ==
    LET e == decodeJSON(body)
        res == DelegatePayment(outcome, d)
        readCall == <<Call("handler", "decodeJSON", body.bytes, e)>>
        serviceCall == <<Call("handler", "provider", << >>, res)>>
    IN  IF e # ""
        THEN [err |-> NewInvalidRequestError(e), calls |-> readCall,
              response |-> writeJSONError(NewInvalidRequestError(e))]
        ELSE IF res.kind # "nil"
        THEN [err |-> writeServiceError(res), calls |-> readCall \o serviceCall,
              response |-> writeJSONError(writeServiceError(res))]
        ELSE [err |-> NoError, calls |-> readCall \o serviceCall,
              response |-> writeJSON(201)]

----------------------------------------------------------------------------
(* Outbound webhook (checkout_webhook.go) *)

\* The value of the package's APIVersion constant.
APIVersion == <<Word("APIVersion")>>

\* An event a caller hands to SendWebhook.  marshals is FALSE for a type
\* that embeds OrderCreate and whose MarshalJSON fails.
OrderCreate(id) == [type |-> "order_created", id |-> id, marshals |-> TRUE]
OrderUpdated(id) == [type |-> "order_updated", id |-> id, marshals |-> TRUE]
Unmarshalable == [type |-> "order_created", id |-> "cs_1", marshals |-> FALSE]

\* json.Marshal(webhookEvent{Type: data.eventType(), Data: data})
MarshalEvent(data) ==
    IF data.marshals
    THEN [ok |-> TRUE, bytes |-> <<[k |-> "event", type |-> data.type, id |-> data.id]>>]
    ELSE [ok |-> FALSE, bytes |-> << >>]

\* textproto.CanonicalMIMEHeaderKey, for the header names of the model.
CanonicalMIMEHeaderKey(name) ==
    CASE name \in {"Content-Type", "content-type"} -> "Content-Type"
      [] name \in {"API-Version", "api-version"} -> "Api-Version"
      [] name = "Merchant_Name-Signature" -> "Merchant_name-Signature"
      [] OTHER -> name

\* http.Header.Set
Set(header, name, value) ==
    [n \in DOMAIN header \cup {CanonicalMIMEHeaderKey(name)} |->
        IF n = CanonicalMIMEHeaderKey(name) THEN value ELSE header[n]]

\* http.Header.Get; no text when the header is not set.
Get(header, name) ==
    IF CanonicalMIMEHeaderKey(name) \in DOMAIN header
    THEN header[CanonicalMIMEHeaderKey(name)]
    ELSE NoText

\* An endpoint url.Parse refuses (no scheme before the colon).
MalformedURL == <<Word("://hooks.example")>>

\* url.Parse(rawURL) returns no error.
Parses(rawURL) == rawURL # MalformedURL

\* http.NewRequestWithContext(ctx, POST, endpoint, body): fails for a nil
\* context and for an endpoint that does not parse.
NewRequestWithContext(ctx, endpoint, body) ==
    [ok |-> ctx # "nil" /\ Parses(endpoint),
     body |-> body, header |-> << >>, url |-> endpoint]

\* signWebhookPayload
signWebhookPayload(secret, payload) == EncodeToString(HMAC(secret, payload))

\* What client.Do returns: a response with a status, or a transport error.
Response(status) == [status |-> status, kind |-> "response"]
TransportError == [status |-> 0, kind |-> "error"]

\* Mutation of SuccessStatus: every status under 400 is a success.
NotAnErrorStatus(status) == status < 400

\* The status check of SendWebhook, negated: 200 <= status < 300.
SuccessStatus(status) == ~(status < 200 \/ status >= 300)

\* CheckoutHandler.SendWebhook: the calls it makes and the error it
\* returns ("" for nil).  `result` is what client.Do returns if called.
SendWebhook(c, ctx, data, result) ==
    LET m == MarshalEvent(data)
        built == NewRequestWithContext(ctx, c.webhook.endpoint, m.bytes)
        h1 == Set(built.header, "Content-Type", <<Word("application/json")>>)
        h2 == Set(h1, "API-Version", APIVersion)
        h3 == Set(h2, c.webhook.header[1].v, signWebhookPayload(c.webhook.secret, m.bytes))
        request == [body |-> built.body, header |-> h3, url |-> built.url]
        doCall == <<Call("SendWebhook", "client.Do", request, result)>>
    IN  IF ~c.webhook.configured
        THEN [err |-> "checkout: webhook options must be configured", calls |-> << >>]
        ELSE IF ~m.ok
        THEN [err |-> "checkout: marshal webhook payload", calls |-> << >>]
        ELSE IF ~built.ok
        THEN [err |-> "checkout: build webhook request", calls |-> << >>]
        ELSE IF result.kind = "error"
        THEN [err |-> "checkout: send webhook", calls |-> doCall]
        ELSE IF ~SuccessStatus(result.status)
        THEN [err |-> "checkout: webhook endpoint returned", calls |-> doCall]
        ELSE [err |-> "", calls |-> doCall]

----------------------------------------------------------------------------
(* Inputs *)

ServerKey == "k1"
ClientKeys == {"k1", "k2"}

DocA == Doc(<< <<1, 1>>, <<2, 7>> >>)
DocAReordered == Doc(<< <<2, 7>>, <<1, 1>> >>)
DocB == Doc(<< <<3, 1>> >>)

Bodies ==
    { Reader(<< >>), Reader(<<WS>>), Reader(<<DocA>>),
      Reader(<<WS, DocAReordered, WS>>), Reader(<<DocB>>), Reader(<<Junk>>),
      Reader(<<DocA, Close>>), Reader(<<DocA, DocB>>), BrokenReader, NilBody }

\* Instants a Timestamp header may name, around the first clock reading.
Instants ==
    { StartTime - MaxDuration - 3,
      StartTime - DefaultMaxClockSkew - 1, StartTime - DefaultMaxClockSkew,
      StartTime - SkewChoice - 1, StartTime - SkewChoice,
      StartTime,
      StartTime + SkewChoice, StartTime + SkewChoice + 1,
      StartTime + DefaultMaxClockSkew + 1,
      StartTime + MaxDuration + 1,
      StartTime + MaxDuration + 3 }

TimestampHeaders ==
    { NoText, <<SP>>, <<Word("yesterday")>>,
      <<SP, FormatRFC3339(Time(StartTime, 0)), SP>>,
      <<FormatRFC3339(Time(StartTime, 1))>> }
    \cup { <<FormatRFC3339(Time(i, 0))>> : i \in Instants }

\* What the client signed: its own timestamp and canonical body when it has
\* them, else fixed ones.
OwnTime(tsHeader) ==
    LET p == ParseTimestamp(TrimSpace(tsHeader))
    IN  IF p.ok THEN p.ts ELSE Time(StartTime, 0)

OwnCanonical(body) ==
    LET c == CanonicalizeJSONBody(body.bytes)
    IN  IF c.ok THEN c.bytes ELSE <<Word("null")>>

\* What a Signature header was computed over, as the client knows it.
Signed(key, ts, canonical) == [ts |-> ts, key |-> key, canonical |-> canonical]
Unsigned == Signed("", Time(0, 0), << >>)

SignedHeader(pad, key, ts, canonical) ==
    [text |-> pad \o signFixture(key, ts, canonical) \o pad,
     signed |-> Signed(key, ts, canonical)]

UnsignedHeader(text) == [text |-> text, signed |-> Unsigned]

\* A Signature header computed by a client that writes the signed text
\* itself: the instant in UTC, a dot, the canonical body.
SignedOverUTC(key, inst, canonical) ==
    [text |-> EncodeToString(HMAC(key, <<FormatRFC3339(Time(inst, 0)), Dot>> \o canonical)),
     signed |-> Signed(key, Time(inst, 0), canonical)]

\* Signature headers for a request with this Timestamp header and body.
SignatureHeaders(tsHeader, body) ==
    { UnsignedHeader(NoText), UnsignedHeader(<<SP>>), UnsignedHeader(<<Word("bogus")>>),
      SignedHeader(<<SP>>, ServerKey, OwnTime(tsHeader), OwnCanonical(body)),
      SignedHeader(<< >>, ServerKey, OwnTime(tsHeader), Marshal(DocB)),
      SignedHeader(<< >>, ServerKey, Time(StartTime + 1, 0), OwnCanonical(body)),
      SignedOverUTC(ServerKey, OwnTime(tsHeader).inst, OwnCanonical(body)) }
    \cup { SignedHeader(<< >>, key, OwnTime(tsHeader), OwnCanonical(body)) : key \in ClientKeys }

AuthorizationHeaders ==
    { NoText, <<SP>>,
      <<Word("Token"), SP, Word("abc")>>,
      <<Word("Bearer")>>,
      <<Word("Bearer"), SP>>,
      <<Word("Bearer"), SP, Word("valid-key")>>,
      <<Word("BEARER"), SP, Word("valid-key")>>,
      <<Word("Bearer"), SP, Word("bad-key")>>,
      <<Word("Bearer"), SP, SP, Word("valid-key")>>,
      <<SP, Word("bearer"), SP, Word("valid-key"), SP>> }

Request(sig, ts, auth, body) ==
    [body |-> body, Timestamp |-> ts, Signature |-> sig.text, Authorization |-> auth,
     signed |-> sig.signed]

NoRequest == Request(UnsignedHeader(NoText), NoText, NoText, Reader(<< >>))

Verifiers == { NoVerifier, HMACVerifier(ServerKey), HMACVerifier(""), VerifierFunc }

ProviderOutcomes == {"ok", "plain", "plain2", "structured", "wrapped", "literal"}
\* Retry durations of the provider's errors, in milliseconds.
RetryDurations == {0 - 1, 0, 1, 999, 1000, 2500, 3000}
VerifierFuncResults == {"", "custom verifier error"}

\* Option lists: each option given or not.
OptionLists(verifiers, skews, auths) ==
    { v \o s \o q \o a :
        v \in {<< >>} \cup { <<WithSignatureVerifier(x)>> : x \in verifiers },
        s \in {<< >>} \cup { <<WithMaxClockSkew(x)>> : x \in skews },
        q \in {<< >>, <<WithRequireSignedRequests>>},
        a \in {<< >>} \cup { <<WithAuthenticator(x)>> : x \in auths } }

RECURSIVE Reverse(_)
Reverse(s) == IF s = << >> THEN << >> ELSE Reverse(Tail(s)) \o <<Head(s)>>

----------------------------------------------------------------------------
(* Example stores (examples/checkout, examples/delegated_payment) *)

\* newMemoryService: no sessions, counters at zero, webhooks disabled.
newMemoryService ==
    [webhook |-> FALSE, sessions |-> << >>, sessionID |-> 0, orderID |-> 0]

\* newDelegatedMemoryService
newDelegatedMemoryService == [tokens |-> << >>, tokenID |-> 0]

\* A Go map with key k set to v.
Put(m, k, v) == [i \in DOMAIN m \cup {k} |-> IF i = k THEN v ELSE m[i]]

\* What the calls made so far returned and sent: the number of calls, the
\* return of the latest one, and the webhook events sent, in order.
NoReturns == [n |-> 0, last |-> [op |-> "none"], sent |-> << >>]

\* defaultCatalog: price and tax (math.Round(TaxRate * price)) of one unit.
Catalog == {"latte", "beans"}
Price(sku) == IF sku = "latte" THEN 650 ELSE 2400
Tax(sku) == IF sku = "latte" THEN 46 ELSE 0

notFound == NewHTTPError(404, "invalid_request", "not_found", "checkout session not found")

\* buildLineItems: one line per item (quantity 1), or the first error.
buildLineItems(items) ==
    IF Len(items) = 0
    THEN [ok |-> FALSE, err |-> NewHTTPError(400, "invalid_request", "invalid_request",
                      "items cannot be empty"),
          lines |-> << >>]
    ELSE IF \E i \in 1..Len(items) : items[i] \notin Catalog
    THEN [ok |-> FALSE, err |-> NewHTTPError(400, "invalid_request", "unknown_item",
                      "is not sold by this merchant"),
          lines |-> << >>]
    ELSE [ok |-> TRUE,
          err |-> NoError,
          lines |-> [i \in 1..Len(items) |->
                       [id |-> items[i], base |-> Price(items[i]), tax |-> Tax(items[i])]]]

\* buildTotals: the total amount.
RECURSIVE buildTotals(_)
buildTotals(lines) ==
    IF lines = << >> THEN 0
    ELSE Head(lines).base + Head(lines).tax + buildTotals(Tail(lines))

\* rebuildFinancials: the session with new line items and totals, or the
\* session as it is and the error.
rebuildFinancials(session, items) ==
    LET b == buildLineItems(items)
    IN  IF ~b.ok THEN [ok |-> FALSE, err |-> b.err, session |-> session]
        ELSE [ok |-> TRUE,
              err |-> NoError,
              session |-> [session EXCEPT !.lineItems = b.lines,
                                          !.totals = buildTotals(b.lines)]]

\* Mutation of deriveStatus: the status is derived from the cart alone.
deriveStatusFromCart(session) ==
    IF Len(session.lineItems) = 0 THEN "in_progress" ELSE "ready_for_payment"

\* deriveStatus; the PaymentProvider of a session is never nil.
deriveStatus(session) ==
    CASE session.status = "canceled" -> "canceled"
      [] session.status = "completed" -> "completed"
      [] Len(session.lineItems) = 0 -> "in_progress"
      [] OTHER -> "ready_for_payment"

\* Mutation of HasOrder: the order of a session is not looked at.
NeverOrdered(state) == FALSE

\* state.order != nil
HasOrder(state) == state.order # 0

\* A request field that may be left out (a nil pointer); values are text.
Nil == [v |-> << >>, set |-> FALSE]
Given(v) == [v |-> v, set |-> TRUE]

\* What a call of the store returns: the error (NoError for nil), and the
\* order of the returned session (0 for none).
Returned(op, id, err, order) == [err |-> err, id |-> id, op |-> op, order |-> order]

\* memoryService.CreateSession, under s.mu: the store afterwards and the
\* return.  The session ID is taken before the items are looked at.
CreateSession(m, r) ==
    LET id == m.sessionID + 1
        session == [status |-> "", lineItems |-> << >>, totals |-> 0,
                    buyer |-> r.buyer, address |-> r.address, option |-> Nil]
        f == rebuildFinancials(session, r.items.v)
        stored == [session |-> [f.session EXCEPT !.status = deriveStatus(f.session)],
                   order |-> 0]
    IN  IF ~f.ok
        THEN [memory |-> [m EXCEPT !.sessionID = id],
              ret |-> Returned("CreateSession", id, f.err, 0)]
        ELSE [memory |-> [m EXCEPT !.sessionID = id, !.sessions = Put(@, id, stored)],
              ret |-> Returned("CreateSession", id, NoError, 0)]

\* memoryService.UpdateSession, under s.mu.  session points into the
\* store, so the fields set before rebuildFinancials fails stay set.
UpdateSession(m, id, r) ==
    LET state == m.sessions[id]
        s1 == IF r.buyer.set THEN [state.session EXCEPT !.buyer = r.buyer] ELSE state.session
        s2 == IF r.address.set THEN [s1 EXCEPT !.address = r.address] ELSE s1
        s3 == IF r.option.set THEN [s2 EXCEPT !.option = r.option] ELSE s2
        f == IF r.items.set THEN rebuildFinancials(s3, r.items.v)
             ELSE [ok |-> TRUE, err |-> NoError, session |-> s3]
        s4 == [f.session EXCEPT !.status = deriveStatus(f.session)]
    IN  IF id \notin DOMAIN m.sessions
        THEN [memory |-> m, ret |-> Returned("UpdateSession", id, notFound, 0)]
        ELSE IF ~f.ok
        THEN [memory |-> [m EXCEPT !.sessions[id].session = s3],
              ret |-> Returned("UpdateSession", id, f.err, 0)]
        ELSE [memory |-> [m EXCEPT !.sessions[id].session = s4],
              ret |-> Returned("UpdateSession", id, NoError, state.order)]

\* memoryService.CompleteSession up to s.mu.Unlock: the store afterwards,
\* the return, and whether an order_created event is left to send.
CompleteSession(m, id) ==
    LET state == m.sessions[id]
        order == m.orderID + 1
    IN  IF id \notin DOMAIN m.sessions
        THEN [memory |-> m, ret |-> Returned("CompleteSession", id, notFound, 0),
              event |-> FALSE]
        ELSE IF state.session.status = "canceled"
        THEN [memory |-> m,
              ret |-> Returned("CompleteSession", id,
                          NewHTTPError(409, "invalid_request", "canceled",
                              "cannot complete a canceled session"), 0),
              event |-> FALSE]
        ELSE IF Len(state.session.lineItems) = 0
        THEN [memory |-> m,
              ret |-> Returned("CompleteSession", id,
                          NewHTTPError(400, "invalid_request", "empty_cart",
                              "add items before completing the session"), 0),
              event |-> FALSE]
        ELSE IF HasOrder(state)
        THEN [memory |-> m, ret |-> Returned("CompleteSession", id, NoError, state.order),
              event |-> FALSE]
        ELSE [memory |-> [m EXCEPT !.orderID = order,
                                   !.sessions[id].session.status = "completed",
                                   !.sessions[id].order = order],
              ret |-> Returned("CompleteSession", id, NoError, order),
              event |-> TRUE]

\* memoryService.CancelSession, under s.mu.
CancelSession(m, id) ==
    IF id \notin DOMAIN m.sessions
    THEN [memory |-> m, ret |-> Returned("CancelSession", id, notFound, 0)]
    ELSE IF HasOrder(m.sessions[id])
    THEN [memory |-> m,
          ret |-> Returned("CancelSession", id,
                      NewHTTPError(409, "invalid_request", "completed",
                          "completed sessions cannot be canceled"), 0)]
    ELSE [memory |-> [m EXCEPT !.sessions[id].session.status = "canceled"],
          ret |-> Returned("CancelSession", id, NoError, 0)]

\* acp.PaymentRequest: the fields DelegatePayment reads.
PaymentRequest(key, merchant, metadata) ==
    [metadata |-> metadata, checkoutSessionID |-> key, merchantID |-> merchant]

\* cloneStringMap: nil for an empty map, otherwise a map of its own with
\* the same entries.
cloneStringMap(src) == IF DOMAIN src = { } THEN << >> ELSE src

\* Mutation of cloneVaultToken: the caller is handed the stored token.
shareVaultToken(src) == [token |-> src, shared |-> TRUE]

\* cloneVaultToken: a copy that shares nothing with the stored token.
cloneVaultToken(src) ==
    [token |-> [src EXCEPT !.Metadata = cloneStringMap(@)], shared |-> FALSE]

\* nextTokenID: Sprintf("vt_%06d", id) is kept as the number it prints.
nextTokenID(s) == s.tokenID + 1

\* delegatedMemoryService.DelegatePayment, under s.mu, at clock reading
\* clock.
DelegatePaymentStore(s, clock, r) ==
    LET key == r.checkoutSessionID
        metadata == Put(Put(cloneStringMap(r.metadata), "merchant_id", r.merchantID),
                        "checkout_session_id", key)
        token == [Metadata |-> metadata, ID |-> nextTokenID(s), Created |-> clock]
    IN  IF key \in DOMAIN s.tokens
        THEN [vault |-> s, ret |-> cloneVaultToken(s.tokens[key])]
        ELSE [vault |-> [tokens |-> Put(s.tokens, key, token), tokenID |-> nextTokenID(s)],
              ret |-> cloneVaultToken(token)]

----------------------------------------------------------------------------
(* State machine *)

Init ==
    /\ pc = "new"
    /\ cfg = DefaultConfig
    /\ chain = << >>
    /\ now = StartTime
    /\ req = NoRequest
    /\ rbody = NoRequest.body
    /\ stage = << >>
    /\ log = << >>
    /\ resp = << >>
    /\ memory = newMemoryService
    /\ vault = newDelegatedMemoryService
    /\ goroutines = << >>
    /\ returns = NoReturns

\* Mutation of Enforceable: the constructor does not look at the verifier.
Unchecked(c) == TRUE

\* The constructors' check after the options are applied: no panic unless
\* signed requests are required and the verifier is nil.
Enforceable(c) == ~(c.requireSignedRequests /\ c.signatureVerifier.kind = "none")

\* The part NewCheckoutHandler and NewDelegatedPaymentHandler share: build
\* the options, apply them, refuse enforcement without a verifier.
Construct(opts, c, middleware, handler) ==
    /\ pc = "new"
    /\ IF OptionPanics(opts) \/ ~Enforceable(c)
       THEN /\ pc' = "panicked"
            /\ UNCHANGED <<cfg, chain>>
       ELSE /\ pc' = "idle"
            /\ cfg' = c
            /\ chain' = applyMiddleware(<<handler>>, middleware)
    /\ UNCHANGED <<now, req, rbody, stage, log, resp>>
    /\ UNCHANGED serviceVars

NewCheckoutHandler(opts) ==
    LET c == ApplyOptions(DefaultConfig, opts)
    IN  Construct(opts, c, newSignatureMiddleware(c), "handler")

NewDelegatedPaymentHandler(opts) ==
    LET c == ApplyOptions(DefaultConfig, opts)
        middleware ==
            newSignatureMiddleware(c)
            \o (IF c.authenticator # NoAuthenticator THEN <<"authentication">> ELSE << >>)
            \o c.middleware
    IN  Construct(opts, c, middleware, "handler")

\* cfg.clock advances between requests.
Tick ==
    /\ pc = "idle"
    /\ now < StartTime + MaxTicks
    /\ now' = now + 1
    /\ UNCHANGED <<pc, cfg, chain, req, rbody, stage, log, resp>>
    /\ UNCHANGED serviceVars

\* ServeHTTP: the mux hands the request to the composed handler.
ServeHTTP(r) ==
    /\ pc = "idle"
    /\ pc' = "serving"
    /\ req' = r
    /\ rbody' = r.body
    /\ stage' = chain
    /\ log' = << >>
    /\ resp' = << >>
    /\ UNCHANGED <<cfg, chain, now>>
    /\ UNCHANGED serviceVars

\* A response and the stage that wrote it.
Written(by, err, response) == [by |-> by, err |-> err, response |-> response]

\* A middleware either calls next or writes its error and returns.
Middleware(res, body) ==
    /\ log' = log \o res.calls
                  \o (IF res.next THEN <<Call(Head(stage), "next", << >>, "")>> ELSE << >>)
    /\ rbody' = body
    /\ IF res.next
       THEN /\ stage' = Tail(stage)
            /\ resp' = resp
            /\ pc' = pc
       ELSE /\ stage' = << >>
            /\ resp' = Append(resp, Written(Head(stage), res.err, writeJSONError(res.err)))
            /\ pc' = "done"
    /\ UNCHANGED <<cfg, chain, now, req>>
    /\ UNCHANGED serviceVars

SignatureStage ==
    /\ pc = "serving"
    /\ stage # << >>
    /\ Head(stage) = "signature"
    /\ \E funcErr \in VerifierFuncResults :
          LET res == signatureMiddleware(cfg, req, rbody, Time(now, 0), funcErr)
          IN  Middleware(res, res.body)

AuthenticationStage ==
    /\ pc = "serving"
    /\ stage # << >>
    /\ Head(stage) = "authentication"
    /\ Middleware(authenticationMiddleware(cfg, req), rbody)

RouteHandler ==
    /\ pc = "serving"
    /\ stage # << >>
    /\ Head(stage) = "handler"
    /\ \E outcome \in ProviderOutcomes, d \in RetryDurations :
          LET res == routeHandler(rbody, outcome, d)
          IN  /\ log' = log \o res.calls
              /\ resp' = Append(resp, Written("handler", res.err, res.response))
    /\ rbody' = Reader(<< >>)
    /\ stage' = << >>
    /\ pc' = "done"
    /\ UNCHANGED <<cfg, chain, now, req>>
    /\ UNCHANGED serviceVars

\* The request is over; its objects are dropped.
Return ==
    /\ pc = "done"
    /\ pc' = "idle"
    /\ req' = NoRequest
    /\ rbody' = NoRequest.body
    /\ log' = << >>
    /\ resp' = << >>
    /\ UNCHANGED <<cfg, chain, now, stage>>
    /\ UNCHANGED serviceVars

CheckoutConstruct ==
    \E opts \in OptionLists(Verifiers, {0, SkewChoice}, {"keys"}), rev \in BOOLEAN :
        NewCheckoutHandler(IF rev THEN Reverse(opts) ELSE opts)

CheckoutServe ==
    \E ts \in TimestampHeaders, body \in Bodies :
        \E sig \in SignatureHeaders(ts, body) :
            ServeHTTP(Request(sig, ts, NoText, body))

Next ==
    \/ CheckoutConstruct
    \/ Tick
    \/ CheckoutServe
    \/ SignatureStage
    \/ RouteHandler
    \/ Return

\* A CheckoutHandler serving requests one after another.
Spec == Init /\ [][Next]_vars

DelegatedConstruct ==
    \E opts \in OptionLists({HMACVerifier(ServerKey)}, { }, {"keys", "down", "busy"}),
       rev \in BOOLEAN :
        NewDelegatedPaymentHandler(IF rev THEN Reverse(opts) ELSE opts)

DelegatedServe ==
    \E ts \in {NoText, <<FormatRFC3339(Time(StartTime, 0))>>,
               <<FormatRFC3339(Time(StartTime - MaxDuration - 3, 0))>>},
       body \in {Reader(<<DocA>>), Reader(<<DocB>>), Reader(<<Junk>>)},
       auth \in AuthorizationHeaders :
        \E sig \in {UnsignedHeader(NoText), UnsignedHeader(<<Word("bogus")>>),
                    SignedHeader(<< >>, ServerKey, OwnTime(ts), OwnCanonical(body))} :
            ServeHTTP(Request(sig, ts, auth, body))

DelegatedNext ==
    \/ DelegatedConstruct
    \/ Tick
    \/ DelegatedServe
    \/ SignatureStage
    \/ AuthenticationStage
    \/ RouteHandler
    \/ Return

\* A DelegatedPaymentHandler serving requests one after another.
DelegatedSpec == Init /\ [][DelegatedNext]_vars

\* Serializations handed to CanonicalizeJSONBody on its own.
RawBodies ==
    { << >>, <<WS>>, <<Word("null")>>,
      <<DocA>>, <<DocAReordered>>, <<WS, DocA>>, <<DocAReordered, WS, WS>>,
      <<DocB>>, <<WS, DocB, WS>>,
      <<Junk>>, <<DocA, Close>>, <<DocA, WS, Junk>>, <<DocA, DocB>> }

MaxApplications == 2

\* CanonicalizeJSONBody applied to a body.
Canonicalize ==
    /\ pc \in {"new", "pure"}
    /\ Len(log) < MaxApplications
    /\ \E raw \in RawBodies :
          log' = Append(log, Call("caller", "CanonicalizeJSONBody", raw,
                                  CanonicalizeJSONBody(raw)))
    /\ pc' = "pure"
    /\ UNCHANGED <<cfg, chain, now, req, rbody, stage, resp>>
    /\ UNCHANGED serviceVars

\* CanonicalizeJSONBody applied to what an earlier application returned.
Recanonicalize ==
    /\ pc = "pure"
    /\ Len(log) < MaxApplications
    /\ \E i \in DOMAIN log :
          /\ log[i].ret.ok
          /\ log' = Append(log, Call("caller", "CanonicalizeJSONBody", log[i].ret.bytes,
                                     CanonicalizeJSONBody(log[i].ret.bytes)))
    /\ UNCHANGED <<pc, cfg, chain, now, req, rbody, stage, resp>>
    /\ UNCHANGED serviceVars

PureNext == Canonicalize \/ Recanonicalize

\* The canonicalizer applied to bodies, outside any handler.
PureSpec == Init /\ [][PureNext]_vars

\* Options given to WithWebhookOptions.
Endpoints == { <<SP>>, <<SP, Word("https://hooks.example/acp")>>, MalformedURL }
HeaderNames ==
    { NoText, <<Word("Merchant_Name-Signature"), SP>>, <<Word("content-type")>> }
SecretKeys == { "", "s1", "s2" }

WebhookOptionLists ==
    {<< >>} \cup { <<WithWebhookOptions(WebhookOptions(e, h, k))>> :
                      e \in Endpoints, h \in HeaderNames, k \in SecretKeys }

Events == { OrderCreate("cs_1"), OrderCreate("cs_2"), OrderUpdated("cs_1"), Unmarshalable }

\* The context a caller passes: a live one, or nil.
Contexts == { "background", "nil" }

DoResults ==
    { TransportError } \cup { Response(n) : n \in {199, 200, 202, 299, 300, 307, 404, 500} }

WebhookConstruct == \E opts \in WebhookOptionLists : NewCheckoutHandler(opts)

\* One call of SendWebhook, from its first statement to its return.
WebhookSend ==
    /\ pc = "idle"
    /\ \E ctx \in Contexts, data \in Events, result \in DoResults :
          LET r == SendWebhook(cfg, ctx, data, result)
          IN  log' = r.calls \o
                  <<Call("caller", "SendWebhook", [data |-> data, ctx |-> ctx], r.err)>>
    /\ pc' = "done"
    /\ UNCHANGED <<cfg, chain, now, req, rbody, stage, resp>>
    /\ UNCHANGED serviceVars

WebhookNext ==
    \/ WebhookConstruct
    \/ WebhookSend
    \/ Return

\* A CheckoutHandler whose owner sends webhook events.
WebhookSpec == Init /\ [][WebhookNext]_vars

----------------------------------------------------------------------------
(* Concurrent requests on one DelegatedPaymentHandler.  net/http serves    *)
(* every connection on a goroutine of its own; the handler and its cfg are *)
(* shared, the request, its body and the response writer are not.          *)

MaxInFlight == 2

\* The timestamp of a request that is fresh at the first clock reading only.
LastFresh == <<FormatRFC3339(Time(StartTime - DefaultMaxClockSkew, 0))>>

ConcurrentRequests ==
    LET valid == <<Word("Bearer"), SP, Word("valid-key")>>
        bad == <<Word("Bearer"), SP, Word("bad-key")>>
        A == Reader(<<DocA>>)
        mine(ts, body) == SignedHeader(<< >>, ServerKey, OwnTime(ts), OwnCanonical(body))
    IN  { Request(mine(LastFresh, A), LastFresh, valid, A),
          Request(mine(LastFresh, A), LastFresh, bad, A),
          Request(mine(LastFresh, A), LastFresh, NoText, A),
          Request(mine(LastFresh, Reader(<<DocB>>)), LastFresh, valid, A),
          Request(mine(LastFresh, Reader(<<Junk>>)), LastFresh, valid, Reader(<<Junk>>)),
          Request(UnsignedHeader(NoText), NoText, valid, A),
          Request(UnsignedHeader(NoText), LastFresh, valid, A) }

\* Mutation of Own: the handler keeps the request in a field of its own,
\* which the latest request overwrites.
Latest(gs, g) == gs[Len(gs)]

\* The request a running middleware works on: the r it was called with.
Own(gs, g) == gs[g]

\* The server starts a goroutine for a new request.
Accept ==
    /\ pc = "idle"
    /\ Len(goroutines) < MaxInFlight
    /\ \E r \in ConcurrentRequests :
          goroutines' = Append(goroutines,
              [req |-> r, rbody |-> r.body, stage |-> chain, resp |-> << >>,
               clock |-> now, reached |-> FALSE])
    /\ UNCHANGED handlerVars
    /\ UNCHANGED <<memory, vault, returns>>

\* Goroutine g ran one middleware, which read the clock at `clock`.
Ran(g, res, clock) ==
    /\ goroutines' = [goroutines EXCEPT ![g] =
          [req |-> @.req,
           rbody |-> res.body,
           stage |-> IF res.next THEN Tail(@.stage) ELSE << >>,
           resp |-> IF res.next THEN @.resp
                    ELSE Append(@.resp, Written(Head(@.stage), res.err, writeJSONError(res.err))),
           clock |-> clock,
           reached |-> FALSE]]
    /\ UNCHANGED handlerVars
    /\ UNCHANGED <<memory, vault, returns>>

ConcurrentSignature ==
    \E g \in DOMAIN goroutines :
        /\ goroutines[g].stage # << >>
        /\ Head(goroutines[g].stage) = "signature"
        /\ Ran(g, signatureMiddleware(cfg, Own(goroutines, g).req, Own(goroutines, g).rbody,
                                      Time(now, 0), ""), now)

ConcurrentAuthentication ==
    \E g \in DOMAIN goroutines :
        /\ goroutines[g].stage # << >>
        /\ Head(goroutines[g].stage) = "authentication"
        /\ LET res == authenticationMiddleware(cfg, Own(goroutines, g).req)
           IN  Ran(g, [body |-> goroutines[g].rbody, err |-> res.err,
                       calls |-> res.calls, next |-> res.next],
                   goroutines[g].clock)

\* The request of goroutine g reached handleDelegatePayment.
ConcurrentHandler ==
    \E g \in DOMAIN goroutines :
        /\ goroutines[g].stage # << >>
        /\ Head(goroutines[g].stage) = "handler"
        /\ goroutines' = [goroutines EXCEPT ![g] =
              [req |-> @.req, rbody |-> @.rbody, stage |-> << >>, resp |-> @.resp,
               clock |-> @.clock, reached |-> TRUE]]
        /\ UNCHANGED handlerVars
        /\ UNCHANGED <<memory, vault, returns>>

\* Every request in flight is over; their goroutines end.
ConcurrentReturn ==
    /\ goroutines # << >>
    /\ \A g \in DOMAIN goroutines : goroutines[g].stage = << >>
    /\ goroutines' = << >>
    /\ UNCHANGED handlerVars
    /\ UNCHANGED <<memory, vault, returns>>

\* The clock advances while requests are in flight.
ConcurrentTick ==
    /\ pc = "idle"
    /\ now < StartTime + MaxTicks
    /\ now' = now + 1
    /\ UNCHANGED <<pc, cfg, chain, req, rbody, stage, log, resp>>
    /\ UNCHANGED serviceVars

ConcurrentNext ==
    \/ DelegatedConstruct
    \/ ConcurrentTick
    \/ Accept
    \/ ConcurrentSignature
    \/ ConcurrentAuthentication
    \/ ConcurrentHandler
    \/ ConcurrentReturn

\* A DelegatedPaymentHandler serving up to MaxInFlight requests at once.
ConcurrentSpec == Init /\ [][ConcurrentNext]_vars

----------------------------------------------------------------------------
(* Handlers built with WithMiddleware. *)

\* The middleware of examples/checkout; both call next.
MiddlewareLists ==
    { <<"logging">>, <<"logging", "cors">>, <<"nil", "cors">> }

CustomOptionLists ==
    { v \o a \o <<WithMiddleware(mw)>> :
        v \in {<< >>, <<WithSignatureVerifier(HMACVerifier(ServerKey))>>},
        a \in {<< >>, <<WithAuthenticator("keys")>>},
        mw \in MiddlewareLists }

CustomCheckoutConstruct == \E opts \in CustomOptionLists : NewCheckoutHandler(opts)

CustomDelegatedConstruct ==
    \E opts \in CustomOptionLists : NewDelegatedPaymentHandler(opts)

CustomServe == \E r \in ConcurrentRequests : ServeHTTP(r)

\* A middleware given to WithMiddleware runs and calls next.
CustomStage ==
    /\ pc = "serving"
    /\ stage # << >>
    /\ Head(stage) \notin {"signature", "authentication", "handler"}
    /\ Middleware(Continue(<< >>, rbody), rbody)

MiddlewareNext ==
    \/ CustomCheckoutConstruct
    \/ CustomDelegatedConstruct
    \/ CustomServe
    \/ CustomStage
    \/ SignatureStage
    \/ AuthenticationStage
    \/ RouteHandler
    \/ Return

\* A handler of either kind built with WithMiddleware, serving requests.
MiddlewareSpec == Init /\ [][MiddlewareNext]_vars

----------------------------------------------------------------------------
(* A captured request submitted again and again to one CheckoutHandler    *)
(* with the package's HMAC verifier, while the clock advances.  log and   *)
(* resp run over all the submissions: each one adds a "submit" entry with *)
(* the clock reading and ends with exactly one response.                  *)

MaxReplays == 2

ReplayInstants ==
    { StartTime - SkewChoice - 1, StartTime - SkewChoice, StartTime - SkewChoice + 1,
      StartTime, StartTime + SkewChoice, StartTime + SkewChoice + 1,
      StartTime + MaxDuration + 3 }

ReplayRequests ==
    UNION { { Request(sig, <<FormatRFC3339(Time(i, 0))>>, NoText, Reader(<<DocA>>)) :
                sig \in { SignedHeader(<< >>, ServerKey, Time(i, 0), Marshal(DocA)),
                          SignedHeader(<< >>, "k2", Time(i, 0), Marshal(DocA)) } } :
            i \in ReplayInstants }

ReplayConstruct ==
    \E opts \in OptionLists({HMACVerifier(ServerKey)}, {SkewChoice}, { }) :
        NewCheckoutHandler(opts)

Submitted == Call("client", "submit", << >>, now)

\* The client sends a request for the first time.
Submit ==
    /\ pc = "idle"
    /\ pc' = "serving"
    /\ \E r \in ReplayRequests : req' = r /\ rbody' = r.body
    /\ stage' = chain
    /\ log' = <<Submitted>>
    /\ resp' = << >>
    /\ UNCHANGED <<cfg, chain, now>>
    /\ UNCHANGED serviceVars

\* The same request is sent again, unchanged.
Resubmit ==
    /\ pc = "done"
    /\ Len(resp) <= MaxReplays
    /\ pc' = "serving"
    /\ rbody' = req.body
    /\ stage' = chain
    /\ log' = Append(log, Submitted)
    /\ UNCHANGED <<cfg, chain, now, req, resp>>
    /\ UNCHANGED serviceVars

\* The clock advances between two submissions.
ReplayTick ==
    /\ pc = "done"
    /\ now < StartTime + MaxTicks
    /\ now' = now + 1
    /\ UNCHANGED <<pc, cfg, chain, req, rbody, stage, log, resp>>
    /\ UNCHANGED serviceVars

\* handleCreate with a provider that succeeds.
ReplayHandler ==
    /\ pc = "serving"
    /\ stage # << >>
    /\ Head(stage) = "handler"
    /\ LET res == routeHandler(rbody, "ok", 0)
       IN  /\ log' = log \o res.calls
           /\ resp' = Append(resp, Written("handler", res.err, res.response))
    /\ rbody' = Reader(<< >>)
    /\ stage' = << >>
    /\ pc' = "done"
    /\ UNCHANGED <<cfg, chain, now, req>>
    /\ UNCHANGED serviceVars

ReplayNext ==
    \/ ReplayConstruct
    \/ Submit
    \/ Resubmit
    \/ ReplayTick
    \/ SignatureStage
    \/ ReplayHandler
    \/ Return

\* A CheckoutHandler to which a client replays a captured request.
ReplaySpec == Init /\ [][ReplayNext]_vars

----------------------------------------------------------------------------
(* Handlers of either kind built from every combination of the verifier, *)
(* skew and enforcement options, in both orders.                         *)

EnforcementOptionLists ==
    LET lists == OptionLists(Verifiers, {-1, 0, SkewChoice}, {"keys"})
    IN  lists \cup { Reverse(opts) : opts \in lists }

EnforcedCheckoutConstruct ==
    \E opts \in EnforcementOptionLists : NewCheckoutHandler(opts)

EnforcedDelegatedConstruct ==
    \E opts \in EnforcementOptionLists : NewDelegatedPaymentHandler(opts)

EnforcedServe == \E r \in ConcurrentRequests : ServeHTTP(r)

EnforcementNext ==
    \/ EnforcedCheckoutConstruct
    \/ EnforcedDelegatedConstruct
    \/ Tick
    \/ EnforcedServe
    \/ SignatureStage
    \/ AuthenticationStage
    \/ RouteHandler
    \/ Return

\* Every handler the public options can build, serving requests.
EnforcementSpec == Init /\ [][EnforcementNext]_vars

----------------------------------------------------------------------------
(* The example checkout store under concurrent calls.  Every method holds  *)
(* s.mu from its first statement to its return, so its body is one step;   *)
(* CompleteSession sends its event after s.mu.Unlock, in a later step.     *)

MaxCalls == 4

ItemLists == {Nil, Given(<< >>), Given(<<"latte">>), Given(<<"beans", "latte">>),
              Given(<<"tea">>)}
CreateRequests ==
    { [items |-> i, buyer |-> b, address |-> Nil] : b \in {Given(<<"ada">>)}, i \in ItemLists \ {Nil} }
UpdateRequests ==
    { [items |-> i, buyer |-> b, address |-> a, option |-> o] :
        b \in {Nil, Given(<<"bob">>)}, a \in {Nil, Given(<<"2 Mill Lane">>)},
        o \in {Nil, Given(<<"pickup">>)},
        i \in ItemLists }
SessionIDs == 1..3

\* main enables the webhooks before the server starts.
enableWebhooks ==
    /\ returns.n = 0
    /\ ~memory.webhook
    /\ memory' = [memory EXCEPT !.webhook = TRUE]
    /\ UNCHANGED handlerVars
    /\ UNCHANGED <<vault, goroutines, returns>>

\* A call that runs under s.mu from start to end.
Locked(res) ==
    /\ returns.n < MaxCalls
    /\ memory' = res.memory
    /\ returns' = [returns EXCEPT !.n = @ + 1, !.last = res.ret]
    /\ UNCHANGED handlerVars
    /\ UNCHANGED <<vault, goroutines>>

Create == \E r \in CreateRequests : Locked(CreateSession(memory, r))

Update == \E id \in SessionIDs, r \in UpdateRequests : Locked(UpdateSession(memory, id, r))

Cancel == \E id \in SessionIDs : Locked(CancelSession(memory, id))

\* CompleteSession up to s.mu.Unlock in its deferred function; the call
\* goes on with the event and the sender it read under the lock.
Complete ==
    /\ returns.n < MaxCalls
    /\ \E id \in SessionIDs :
          LET res == CompleteSession(memory, id)
          IN  /\ memory' = res.memory
              /\ returns' = [returns EXCEPT !.n = @ + 1, !.last = res.ret]
              /\ goroutines' =
                    IF res.event /\ memory.webhook
                    THEN Append(goroutines, OrderCreate(id))
                    ELSE goroutines
    /\ UNCHANGED handlerVars
    /\ UNCHANGED vault

\* The deferred function of a CompleteSession call sends its event.
Deliver ==
    \E g \in DOMAIN goroutines :
        /\ returns' = [returns EXCEPT !.sent = Append(@, goroutines[g])]
        /\ goroutines' = SubSeq(goroutines, 1, g - 1)
                             \o SubSeq(goroutines, g + 1, Len(goroutines))
        /\ UNCHANGED handlerVars
        /\ UNCHANGED <<memory, vault>>

StoreNext ==
    \/ enableWebhooks
    \/ Create
    \/ Update
    \/ Complete
    \/ Deliver
    \/ Cancel

\* The memoryService of examples/checkout called by concurrent requests.
StoreSpec == Init /\ [][StoreNext]_vars

----------------------------------------------------------------------------
(* The delegatedMemoryService of examples/delegated_payment called by      *)
(* concurrent requests.  goroutines holds the calls waiting for s.mu, log  *)
(* the calls that returned, in the order they held the lock, and           *)
(* returns.last the token the latest caller holds.                         *)

MaxPayments == 3

PaymentRequests ==
    { PaymentRequest(key, merchant, metadata) :
        key \in {"cs_1", "cs_2"},
        merchant \in {"m_1", "m_2"},
        metadata \in {<< >>, Put(<< >>, "merchant_id", "spoof")} }

\* A request handler calls DelegatePayment and waits for s.mu.
Pay ==
    /\ returns.n < MaxPayments
    /\ \E r \in PaymentRequests : goroutines' = Append(goroutines, r)
    /\ returns' = [returns EXCEPT !.n = @ + 1]
    /\ UNCHANGED handlerVars
    /\ UNCHANGED <<memory, vault>>

\* One waiting call takes s.mu, runs DelegatePayment and returns.
Grant ==
    \E g \in DOMAIN goroutines :
        LET res == DelegatePaymentStore(vault, now, goroutines[g])
        IN  /\ vault' = res.vault
            /\ returns' = [returns EXCEPT !.last =
                              [key |-> goroutines[g].checkoutSessionID,
                               op |-> "DelegatePayment",
                               token |-> res.ret.token,
                               shared |-> res.ret.shared]]
            /\ log' = Append(log, Call("client", "DelegatePayment", goroutines[g],
                                       res.ret.token))
            /\ goroutines' = SubSeq(goroutines, 1, g - 1)
                                 \o SubSeq(goroutines, g + 1, Len(goroutines))
            /\ UNCHANGED <<pc, cfg, chain, now, req, rbody, stage, resp, memory>>

\* The latest caller writes into the metadata of the token it was given.
Scribble ==
    /\ returns.last.op = "DelegatePayment"
    /\ returns.last.token.Metadata["merchant_id"] # "scribbled"
    /\ returns' = [returns EXCEPT !.last.token.Metadata["merchant_id"] = "scribbled"]
    /\ vault' = IF returns.last.shared
                THEN [vault EXCEPT !.tokens[returns.last.key].Metadata["merchant_id"] =
                                       "scribbled"]
                ELSE vault
    /\ UNCHANGED handlerVars
    /\ UNCHANGED <<memory, goroutines>>

\* time.Now advances.
PaymentTick ==
    /\ now < StartTime + MaxTicks
    /\ now' = now + 1
    /\ UNCHANGED <<pc, cfg, chain, req, rbody, stage, log, resp>>
    /\ UNCHANGED serviceVars

VaultNext ==
    \/ Pay
    \/ Grant
    \/ Scribble
    \/ PaymentTick

\* The delegatedMemoryService called by concurrent requests.
VaultSpec == Init /\ [][VaultNext]_vars

----------------------------------------------------------------------------
(* Observations used by the properties.  They are stated on the request as *)
(* the client sent it and on what the log and the responses show, and do   *)
(* not go through the operators of the middleware.                         *)

Blank(h) == \A i \in 1..Len(h) : h[i].k = "sp"

\* The header without the white space around it.
Core(h) ==
    IF Blank(h) THEN << >>
    ELSE LET idx == { i \in 1..Len(h) : h[i].k # "sp" }
             lo == CHOOSE i \in idx : \A j \in idx : i <= j
             hi == CHOOSE i \in idx : \A j \in idx : i >= j
         IN  SubSeq(h, lo, hi)

StatesInstant(h) == Len(Core(h)) = 1 /\ Core(h)[1].k = "t"
StatedInstant(h) == Core(h)[1].local - Core(h)[1].off

\* |now - ts| as a number, whatever its size.
Distance(a, b) == IF a >= b THEN a - b ELSE b - a

VerifierConfigured == cfg.signatureVerifier.kind # "none"
BothAbsent == Blank(req.Signature) /\ Blank(req.Timestamp)
BothPresent == ~Blank(req.Signature) /\ ~Blank(req.Timestamp)
OnePresent == Blank(req.Signature) # Blank(req.Timestamp)
Fresh == Distance(now, StatedInstant(req.Timestamp)) <= cfg.maxClockSkew

\* A body is well formed when it is empty or holds exactly one document.
Documents(bytes) == SelectSeq(bytes, LAMBDA c : c.k # "ws")
WellFormedBody == ~req.body.broken /\ Len(Documents(req.body.bytes)) <= 1
                  /\ \A i \in 1..Len(req.body.bytes) : req.body.bytes[i].k \in {"ws", "doc"}

Calls(by, call) == { i \in 1..Len(log) : log[i].by = by /\ log[i].call = call }
HandlerInvoked == \E i \in 1..Len(log) : log[i].by = "handler"
ProviderReached == Calls("handler", "provider") # { }
Responses(by) == { i \in 1..Len(resp) : resp[i].by = by }
Verified == \E i \in Calls("signature", "Verify") : log[i].ret = ""

\* The one response of the request is this error, written by this stage.
RejectedBy(by, status, type, code) ==
    /\ Len(resp) = 1
    /\ resp[1].by = by
    /\ resp[1].response.status = status
    /\ resp[1].response.type = type
    /\ resp[1].response.code = code
    /\ ~HandlerInvoked

----------------------------------------------------------------------------
(* Properties *)

Canonicalizes == ~req.body.broken /\ CanonicalizeJSONBody(req.body.bytes).ok

\* Conditions (a), (b) and (c) under which the signature gate lets a request by.
GateOpen ==
    \/ ~VerifierConfigured
    \/ BothAbsent /\ ~cfg.requireSignedRequests
    \/ /\ BothPresent
       /\ StatesInstant(req.Timestamp)
       /\ Fresh
       /\ Canonicalizes
       /\ Verified

\* C1: a served request reaches the handler behind the signature middleware
\* if and only if no verifier is configured, or both signing headers are
\* absent and signing is optional, or both are present, the timestamp
\* parses, its skew is within the bound, the body canonicalizes and Verify
\* returned nil; otherwise the middleware writes exactly one error response
\* and the handler is not invoked; never both.
C1_FailClosedGate ==
    pc = "done" =>
        /\ HandlerInvoked <=> GateOpen
        /\ ~GateOpen => Len(resp) = 1 /\ Responses("signature") = {1}
        /\ ~(HandlerInvoked /\ Responses("signature") # { })

\* A request whose signing material is certainly rejected: one header only,
\* or a Signature that is no base64url text.
SignatureMustFail ==
    \/ OnePresent
    \/ BothPresent /\ Core(req.Signature) = <<Word("bogus")>>

\* C2: on a DelegatedPaymentHandler with a verifier and an authenticator, a
\* request that fails the signature check gets the signature middleware's
\* error and the Authenticator is never invoked for it.
C2_SignatureBeforeAuthentication ==
    (pc = "done" /\ VerifierConfigured /\ cfg.authenticator # NoAuthenticator
        /\ SignatureMustFail)
    => /\ Len(resp) = 1
       /\ resp[1].by = "signature"
       /\ Calls("authentication", "Authenticate") = { }

\* The check a request violates first, in the order presence, timestamp
\* format, freshness, body validity, verification; "none" if it passes all.
FirstViolation ==
    IF BothAbsent THEN (IF cfg.requireSignedRequests THEN "presence" ELSE "none")
    ELSE IF OnePresent THEN "partial"
    ELSE IF ~StatesInstant(req.Timestamp) THEN "format"
    ELSE IF ~Fresh THEN "freshness"
    ELSE IF ~WellFormedBody THEN "body"
    ELSE IF ~Verified THEN "verification"
    ELSE "none"

\* C3: the signature middleware reports the first violated check in the
\* order presence, timestamp format, freshness, body validity, verification;
\* the body is not read and the Verifier is not invoked when an earlier
\* check fails.
C3_FirstViolationReported ==
    (pc = "done" /\ VerifierConfigured) =>
        LET v == FirstViolation
        IN  /\ v = "presence" => RejectedBy("signature", 401, "invalid_request", "signature_required")
            /\ v = "partial" => RejectedBy("signature", 400, "invalid_request", "invalid_signature")
            /\ v = "format" => RejectedBy("signature", 400, "invalid_request", "invalid_signature")
            /\ v = "freshness" => RejectedBy("signature", 401, "invalid_request", "stale_timestamp")
            /\ v = "body" => RejectedBy("signature", 400, "invalid_request", "invalid_request")
            /\ v = "verification" => RejectedBy("signature", 401, "invalid_request", "invalid_signature")
            /\ v = "none" => Responses("signature") = { }
            /\ v \in {"presence", "partial", "format", "freshness"}
                  => Calls("signature", "ReadAndBufferBody") = { }
            /\ v \in {"presence", "partial", "format", "freshness", "body"}
                  => Calls("signature", "Verify") = { }

\* C4: with a verifier configured and both signing headers absent or blank,
\* the request goes on to the next handler unverified when signing is
\* optional and is rejected with signature_required / invalid_request / 401
\* when it is required.
C4_BothHeadersAbsent ==
    (pc = "done" /\ VerifierConfigured /\ BothAbsent) =>
        IF cfg.requireSignedRequests
        THEN RejectedBy("signature", 401, "invalid_request", "signature_required")
        ELSE /\ Calls("signature", "next") # { }
             /\ Calls("signature", "Verify") = { }
             /\ Responses("signature") = { }
             /\ HandlerInvoked

C4_Witness ==
    /\ pc = "done" /\ VerifierConfigured /\ BothAbsent
    /\ req.Signature = <<SP>>
    /\ ~cfg.requireSignedRequests
    /\ HandlerInvoked

\* C5: with a verifier configured and exactly one of the trimmed signing
\* headers non-empty, the request is rejected with invalid_signature / 400,
\* whether signing is required or optional, and the next handler is not
\* reached.
C5_PartialSigningMaterial ==
    (pc = "done" /\ VerifierConfigured /\ OnePresent) =>
        RejectedBy("signature", 400, "invalid_request", "invalid_signature")

C5_Witness ==
    /\ pc = "done" /\ VerifierConfigured
    /\ Blank(req.Signature) /\ StatesInstant(req.Timestamp)
    /\ ~cfg.requireSignedRequests
    /\ Len(resp) = 1 /\ resp[1].response.status = 400

\* C6: with a maximum clock skew M > 0, a request with both headers and a
\* parsable timestamp ts is rejected with stale_timestamp / 401 if and only
\* if |now - ts| > M, for timestamps in the past and in the future alike.
C6_ClockSkewWindow ==
    (pc = "done" /\ VerifierConfigured /\ cfg.maxClockSkew > 0
        /\ BothPresent /\ StatesInstant(req.Timestamp))
    => (RejectedBy("signature", 401, "invalid_request", "stale_timestamp") <=> ~Fresh)

\* C7: whenever Verify returns an error, whatever it is, the response is
\* invalid_signature / invalid_request / 401 with the fixed message
\* "signature verification failed" and no Retry-After.
C7_VerificationFailureCollapsed ==
    \A i \in Calls("signature", "Verify") :
        log[i].ret # "" =>
            /\ pc = "done"
            /\ RejectedBy("signature", 401, "invalid_request", "invalid_signature")
            /\ resp[1].response.message = "signature verification failed"
            /\ resp[1].response.retryAfterHeader = 0

C7_Witness ==
    /\ pc = "done"
    /\ \E i \in Calls("signature", "Verify") : log[i].ret = "signature: decode signature"
    /\ Len(resp) = 1 /\ resp[1].response.status = 401

\* C8: an HMACVerifier with a non-empty key accepts a Signature header if
\* and only if it is the base64url HMAC, under the same key, of the payload
\* for the same instant and the same canonical body.
C8_HMACRoundTrip ==
    \A i \in Calls("signature", "Verify") :
        (cfg.signatureVerifier.kind = "hmac" /\ cfg.signatureVerifier.key # "") =>
            (log[i].ret = ""
                <=> /\ req.signed # Unsigned
                    /\ req.signed.key = cfg.signatureVerifier.key
                    /\ req.signed.ts.inst = StatedInstant(req.Timestamp)
                    /\ req.signed.canonical = CanonicalizeJSONBody(req.body.bytes).bytes)

C8_Witness ==
    /\ \E i \in Calls("signature", "Verify") : log[i].ret = ""
    /\ cfg.signatureVerifier.kind = "hmac"
    /\ req.signed.key = ServerKey
    /\ req.signed.ts.off # 0
    /\ req.signed.canonical = Marshal(DocA)

\* C9: a request with both signing headers, a parsable and fresh timestamp
\* and a body that is not valid JSON is rejected with invalid_request /
\* invalid_request / 400, and the Verifier is not invoked for it.
C9_MalformedBody ==
    (pc = "done" /\ VerifierConfigured /\ BothPresent
        /\ StatesInstant(req.Timestamp) /\ Fresh /\ ~WellFormedBody)
    => /\ RejectedBy("signature", 400, "invalid_request", "invalid_request")
       /\ Calls("signature", "Verify") = { }

\* The Authorization header has the form <scheme> <token>, the scheme being
\* "Bearer" in any case and the token not empty.
BearerForm(h) ==
    LET c == Core(h)
    IN  /\ Len(c) >= 3
        /\ c[1].k = "w"
        /\ c[1].v \in {"Bearer", "bearer", "BEARER"}
        /\ c[2].k = "sp"

\* C10: with an Authenticator configured on the DelegatedPaymentHandler, a
\* request without Authorization header is rejected with
\* missing_authorization / 401 and one whose header is not
\* "Bearer <token>" with invalid_authorization / 401; in both cases the
\* Authenticator is not invoked and the provider is not reached.
C10_AuthorizationFormat ==
    (pc = "done" /\ cfg.authenticator # NoAuthenticator /\ ~BearerForm(req.Authorization)) =>
        /\ IF Blank(req.Authorization)
           THEN RejectedBy("authentication", 401, "invalid_request", "missing_authorization")
           ELSE RejectedBy("authentication", 401, "invalid_request", "invalid_authorization")
        /\ Calls("authentication", "Authenticate") = { }
        /\ ~ProviderReached

C10_Witness ==
    /\ pc = "done" /\ cfg.authenticator = "keys"
    /\ req.Authorization = <<Word("Token"), SP, Word("abc")>>
    /\ Len(resp) = 1 /\ resp[1].response.code = "invalid_authorization"

\* ceil(d / 1s) for a retry duration d in milliseconds; 0 for none.
CeilSeconds(d) ==
    IF d <= 0 THEN 0
    ELSE CHOOSE n \in 1..(d \div 1000 + 1) : (n - 1) * 1000 < d /\ d <= n * 1000

C12_AuthenticationOnEveryHandler ==
    (pc = "done" /\ cfg.authenticator # NoAuthenticator) =>
        /\ ProviderReached =>
              /\ BearerForm(req.Authorization)
              /\ \E i \in Calls("authentication", "Authenticate") : log[i].ret.kind = "nil"
        /\ Blank(req.Authorization) =>
              RejectedBy("authentication", 401, "invalid_request", "missing_authorization")

\* The bytes are one JSON object and whitespace.
Serialization(raw) ==
    /\ Len(Documents(raw)) = 1
    /\ Documents(raw)[1].k \in {"doc", "cdoc"}

\* The JSON value a serialization denotes: its members, whatever their order.
ValueOf(raw) ==
    LET d == Documents(raw)[1]
    IN  { d.members[i] : i \in 1..Len(d.members) }

TrailingData(raw) ==
    /\ Len(Documents(raw)) >= 2
    /\ Documents(raw)[1].k \in {"doc", "cdoc"}

\* C14: CanonicalizeJSONBody returns an error for every input with anything
\* but whitespace after the first complete JSON document.
C14_TrailingDataRejected ==
    \A i \in DOMAIN log :
        (log[i].call = "CanonicalizeJSONBody" /\ TrailingData(log[i].arg))
            => ~log[i].ret.ok

\* The request has no body, or one of whitespace only.
EmptyBody ==
    /\ ~req.body.broken
    /\ \A i \in 1..Len(req.body.bytes) : req.body.bytes[i].k = "ws"

\* C15: an empty or whitespace-only body canonicalizes to the bytes null
\* without error, and a request with a nil or empty body whose signature
\* was computed over timestamp + ".null" passes the signature middleware.
C15_EmptyBodySignable ==
    (pc = "done" /\ cfg.signatureVerifier.kind = "hmac" /\ cfg.signatureVerifier.key # ""
        /\ BothPresent /\ StatesInstant(req.Timestamp) /\ Fresh /\ EmptyBody
        /\ req.signed.key = cfg.signatureVerifier.key
        /\ req.signed.ts.inst = StatedInstant(req.Timestamp)
        /\ req.signed.canonical = <<Word("null")>>)
    => /\ \E i \in Calls("signature", "Verify") :
             /\ log[i].arg.CanonicalBody = <<Word("null")>>
             /\ log[i].ret = ""
       /\ Calls("signature", "next") # { }
       /\ Responses("signature") = { }

C15_Witness ==
    /\ pc = "done"
    /\ ~req.body.present
    /\ BothPresent
    /\ req.signed.canonical = <<Word("null")>>
    /\ \E i \in Calls("signature", "Verify") :
          log[i].arg.CanonicalBody = <<Word("null")>> /\ log[i].ret = ""
    /\ HandlerInvoked

\* The time a Timestamp header states, in the zone it states it in.
StatedTime(h) == Time(StatedInstant(h), Core(h)[1].off)

\* C16: BuildSigningPayload(ts, body) is the RFC 3339 text of ts in UTC, a
\* dot and the body, so two times that are the same instant in different
\* zones give the same payload, and a request whose Timestamp header uses
\* a non-UTC offset verifies against the signature computed over the UTC
\* rendering of that instant.
C16_PayloadZoneIndependent ==
    \A i \in Calls("signature", "Verify") :
        LET body == log[i].arg.CanonicalBody
            zoned == StatedTime(req.Timestamp)
            inUTC == Time(zoned.inst, 0)
        IN  /\ BuildSigningPayload(zoned, body) = <<FormatRFC3339(inUTC), Dot>> \o body
            /\ BuildSigningPayload(zoned, body) = BuildSigningPayload(inUTC, body)
            /\ (/\ cfg.signatureVerifier.kind = "hmac"
                /\ cfg.signatureVerifier.key # ""
                /\ req.signed = Signed(cfg.signatureVerifier.key, inUTC, body))
               => log[i].ret = ""

C16_Witness ==
    /\ pc = "done"
    /\ StatesInstant(req.Timestamp)
    /\ StatedTime(req.Timestamp).off # 0
    /\ req.signed.key = ServerKey
    /\ req.signed.ts.off = 0
    /\ Verified
    /\ HandlerInvoked

\* C17: when the signature middleware passes a signed request on, the next
\* handler reads from the request body exactly the raw bytes the client
\* sent, for every body including the empty one.
C17_BodyPreserved ==
    (pc = "done" /\ VerifierConfigured /\ BothPresent /\ Calls("signature", "next") # { })
    => /\ Calls("handler", "decodeJSON") # { }
       /\ \A i \in Calls("handler", "decodeJSON") :
             /\ log[i].arg = req.body.bytes
             /\ log[i].ret # "read error"

C17_Witness ==
    /\ pc = "done"
    /\ VerifierConfigured
    /\ Verified
    /\ req.body.bytes = <<WS, DocAReordered, WS>>
    /\ \E i \in Calls("handler", "decodeJSON") : log[i].arg = <<WS, DocAReordered, WS>>
    /\ ProviderReached

\* The error was made by the middleware that wrote it, not handed to it.
MiddlewareOwn(i) ==
    \/ resp[i].by = "signature"
    \/ /\ resp[i].by = "authentication"
       /\ \A j \in Calls("authentication", "Authenticate") :
             log[j].ret.kind \notin {"structured", "wrapped"}

\* C18: an error response carries a Retry-After header if and only if the
\* error written has a positive retry duration d, its value is ceil(d / 1s),
\* and the errors the signature and authentication middlewares make
\* themselves carry none.
C18_RetryAfterHeader ==
    \A i \in DOMAIN resp :
        resp[i].response.status >= 400 =>
            /\ resp[i].response.retryAfterHeader > 0 <=> resp[i].err.retryAfter > 0
            /\ resp[i].response.retryAfterHeader = CeilSeconds(resp[i].err.retryAfter)
            /\ MiddlewareOwn(i) => resp[i].response.retryAfterHeader = 0

C18_Witness ==
    /\ pc = "done"
    /\ Len(resp) = 1
    /\ resp[1].by = "handler"
    /\ resp[1].err.retryAfter = 999
    /\ resp[1].response.retryAfterHeader = 1

\* The requests SendWebhook handed to the HTTP client, and its returns.
Posts == Calls("SendWebhook", "client.Do")
SendReturns == Calls("caller", "SendWebhook")

\* C19: every request SendWebhook issues carries, under the configured
\* header name, base64url-without-padding(HMAC-SHA256(secret, B)) for B the
\* exact bytes sent as the body (no timestamp prefix, no canonicalization),
\* together with Content-Type: application/json and the API-Version header.
C19_WebhookSignature ==
    \A i \in Posts :
        /\ Get(log[i].arg.header, cfg.webhook.header[1].v)
              = EncodeToString(HMAC(cfg.webhook.secret, log[i].arg.body))
        /\ Get(log[i].arg.header, "Content-Type") = <<Word("application/json")>>
        /\ Get(log[i].arg.header, "API-Version") = APIVersion

\* The request can be built: the context is not nil and the configured
\* endpoint parses as a URL.
Buildable(i) == log[i].arg.ctx # "nil" /\ Parses(cfg.webhook.endpoint)

\* What C20 says of every call but the number of POSTs of a configured
\* handler: at most one POST, nil exactly for a 2xx response, an error for
\* every transport error and every other status, and an error without a
\* POST when webhook options are not configured.
SingleShot(i) ==
    /\ Cardinality(Posts) <= 1
    /\ log[i].ret = "" <=>
          \E j \in Posts : /\ log[j].ret.kind = "response"
                           /\ log[j].ret.status \in 200..299
    /\ \A j \in Posts :
          (log[j].ret.kind = "error" \/ log[j].ret.status < 200
             \/ log[j].ret.status >= 300) => log[i].ret # ""
    /\ ~cfg.webhook.configured => Posts = { } /\ log[i].ret # ""

Structured(res) == res.kind \in {"structured", "wrapped"}

\* C21: when the provider returns an error that is or wraps a *Error, the
\* response carries that error's status, type, code and message unchanged;
\* for any other error it is processing_error / 500 with the message
\* "internal server error", whatever the error's text.
C21_ProviderErrorNormalization ==
    \A i \in Calls("handler", "provider") :
        log[i].ret.kind # "nil" =>
            \E j \in Responses("handler") :
                IF Structured(log[i].ret)
                THEN /\ resp[j].response.status = log[i].ret.err.status
                     /\ resp[j].response.type = log[i].ret.err.type
                     /\ resp[j].response.code = log[i].ret.err.code
                     /\ resp[j].response.message = log[i].ret.err.message
                ELSE /\ resp[j].response.status = 500
                     /\ resp[j].response.type = "processing_error"
                     /\ resp[j].response.message = "internal server error"

\* The outcome of a request: it reached the handler, or the code and status
\* of the error written.
Outcome(reached, err) == [code |-> err.code, status |-> err.status, reached |-> reached]

\* The outcome of request r processed alone by the stages `stages` of a
\* handler with configuration c, reading the clock at `clock`.
RECURSIVE Alone(_, _, _, _, _)
Alone(c, stages, r, body, clock) ==
    IF Head(stages) = "handler" THEN Outcome(TRUE, NoError)
    ELSE LET res == IF Head(stages) = "signature"
                    THEN signatureMiddleware(c, r, body, Time(clock, 0), "")
                    ELSE authenticationMiddleware(c, r)
         IN  IF res.next
             THEN Alone(c, Tail(stages), r,
                        IF Head(stages) = "signature" THEN res.body ELSE body, clock)
             ELSE Outcome(FALSE, res.err)

\* The outcome goroutine g's request had.
Had(g) ==
    IF goroutines[g].reached THEN Outcome(TRUE, NoError)
    ELSE Outcome(FALSE, goroutines[g].resp[Len(goroutines[g].resp)].err)

FirstCallBy(m) ==
    IF \E i \in 1..Len(log) : log[i].by = m
    THEN CHOOSE i \in 1..Len(log) : log[i].by = m /\ \A j \in 1..(i - 1) : log[j].by # m
    ELSE 0

\* C23: every middleware given through WithMiddleware is invoked for every
\* request the handler routes, and several of them run in the order given.
C23_CustomMiddlewareInvoked ==
    pc = "done" =>
        /\ \A i \in 1..Len(cfg.middleware) : FirstCallBy(cfg.middleware[i]) > 0
        /\ \A i, j \in 1..Len(cfg.middleware) :
              i < j => FirstCallBy(cfg.middleware[i]) < FirstCallBy(cfg.middleware[j])

\* The stored sessions, and what a stored session is.
Stored == DOMAIN memory.sessions
StatusOf(id) == memory.sessions[id].session.status
OrderOf(id) == memory.sessions[id].order

\* The number of order_created events sent for session id.
SentFor(id) ==
    Cardinality({ i \in 1..Len(returns.sent) :
                    returns.sent[i].id = id /\ returns.sent[i].type = "order_created" })

\* This step is a call of `op` on a stored session returning.
Returns(op) ==
    /\ returns'.n # returns.n
    /\ returns'.last.op = op
    /\ returns'.last.id \in Stored

\* With webhooks enabled, no session gets a second event or one without
\* an order, and when no call is in flight every session with an order has
\* had exactly one.
OneEventPerOrder ==
    memory.webhook =>
        /\ \A i \in 1..Len(returns.sent) : returns.sent[i].id \in Stored
        /\ \A id \in Stored :
              /\ SentFor(id) <= 1
              /\ SentFor(id) = 1 => OrderOf(id) # 0
              /\ goroutines = << >> => SentFor(id) = (IF OrderOf(id) # 0 THEN 1 ELSE 0)

\* A CompleteSession call on a session that has an order returns that
\* order and leaves no event to send; a failing one leaves none either.
NoSecondEvent ==
    Returns("CompleteSession") =>
        /\ OrderOf(returns'.last.id) # 0 =>
              /\ returns'.last.err = NoError
              /\ returns'.last.order = OrderOf(returns'.last.id)
              /\ goroutines' = goroutines
        /\ returns'.last.err # NoError => goroutines' = goroutines /\ memory' = memory

\* C24: with webhooks enabled, after any sequence and interleaving of
\* Create/Update/Complete/Cancel calls the sender has been called with an
\* order_created event exactly once for each session that has an order and
\* never for one without; completing a completed session returns the same
\* order and sends nothing, and a failing CompleteSession sends nothing.
C24_OneOrderCreatedPerSession == []OneEventPerOrder /\ [][NoSecondEvent]_vars

\* A concurrent CancelSession was refused while the event of the
\* CompleteSession call that made the order was still to be sent.
C24_Witness ==
    /\ memory.webhook
    /\ Len(goroutines) = 1
    /\ returns.sent = << >>
    /\ returns.last.op = "CancelSession"
    /\ returns.last.err.code = "completed"
    /\ goroutines[1].id = returns.last.id

\* A session has an order exactly when it is completed, and a canceled
\* session has none.
TerminalStates ==
    \A id \in Stored :
        /\ OrderOf(id) # 0 <=> StatusOf(id) = "completed"
        /\ ~(StatusOf(id) = "canceled" /\ OrderOf(id) # 0)

\* Completed and canceled are absorbing, and the calls that would leave
\* them fail with 409.
Absorbing ==
    /\ \A id \in Stored :
          StatusOf(id) \in {"completed", "canceled"} =>
              /\ memory'.sessions[id].session.status = StatusOf(id)
              /\ memory'.sessions[id].order = OrderOf(id)
    /\ Returns("CompleteSession") /\ StatusOf(returns'.last.id) = "canceled" =>
          returns'.last.err.status = 409 /\ returns'.last.err.code = "canceled"
    /\ Returns("CancelSession") /\ OrderOf(returns'.last.id) # 0 =>
          returns'.last.err.status = 409 /\ returns'.last.err.code = "completed"

\* C28: in every reachable state of memoryService a session has an order
\* if and only if it is completed and no canceled session has one;
\* completed and canceled are absorbing: CompleteSession on a canceled
\* session and CancelSession on a session with an order fail with 409, and
\* UpdateSession never changes a completed or canceled status.
C28_TerminalStates == []TerminalStates /\ [][Absorbing]_vars

\* UpdateSession succeeded on a completed session, which is still
\* completed and has its order.
C28_Witness ==
    /\ returns.last.op = "UpdateSession"
    /\ returns.last.err = NoError
    /\ returns.last.id \in Stored
    /\ StatusOf(returns.last.id) = "completed"
    /\ OrderOf(returns.last.id) # 0
    /\ Len(memory.sessions[returns.last.id].session.lineItems) = 2

\* C29: whenever UpdateSession, CompleteSession or CancelSession returns
\* an error, the stored sessions and their orders are what they were
\* before the call.
C29_UnchangedOnError ==
    [][(/\ returns'.n # returns.n
        /\ returns'.last.op \in {"UpdateSession", "CompleteSession", "CancelSession"}
        /\ returns'.last.err # NoError)
       => memory'.sessions = memory.sessions]_vars

\* The clock reading of the k-th submission of the request, the instant
\* its Timestamp header states, and what became of it.
SubmissionClock(k) ==
    LET at == SelectSeq(log, LAMBDA c : c.by = "client") IN at[k].ret
Stated == StatedInstant(req.Timestamp)
Accepted(k) == resp[k].by = "handler"
Stale(k) ==
    /\ resp[k].by = "signature"
    /\ resp[k].response.status = 401
    /\ resp[k].response.code = "stale_timestamp"

\* The handler was built with a signature verifier.
Verifying == cfg.signatureVerifier.kind # "none"

\* What C25 says of a request accepted once: it is accepted again at every
\* clock reading inside the window and refused as stale at every one after.
Replayable ==
    \A j, k \in 1..Len(resp) :
        j < k /\ Accepted(j) =>
            /\ Distance(SubmissionClock(k), Stated) <= cfg.maxClockSkew => Accepted(k)
            /\ SubmissionClock(k) - Stated > cfg.maxClockSkew => Stale(k)

Requires(opts) == \E i \in 1..Len(opts) : opts[i].o = "require"
VerifierGiven(opts) ==
    \E i \in 1..Len(opts) : opts[i].o = "verifier" /\ opts[i].verifier # NoVerifier

\* The request carries neither a Signature nor a Timestamp header.
NoSignatureHeaders == missingBoth(TrimSpace(req.Signature), TrimSpace(req.Timestamp))

\* C26: both constructors panic when WithRequireSignedRequests is given
\* without a signature Verifier, in any option order, so in every handler
\* that exists enforcement comes with a verifier, a request that reaches
\* the route handler of an enforcing handler was signed and verified, and
\* the max clock skew is positive.
C26_EnforcementNeedsVerifier ==
    /\ \A opts \in EnforcementOptionLists :
          Requires(opts) /\ ~VerifierGiven(opts) =>
              ~Enforceable(ApplyOptions(DefaultConfig, opts))
    /\ pc \notin {"new", "panicked"} =>
          /\ cfg.requireSignedRequests => cfg.signatureVerifier # NoVerifier
          /\ cfg.maxClockSkew > 0
          /\ cfg.requireSignedRequests /\ HandlerInvoked => ~NoSignatureHeaders /\ Verified

\* An enforcing handler with a max clock skew set by option refused an
\* unsigned request.
C26_Witness ==
    /\ pc = "done"
    /\ cfg.requireSignedRequests
    /\ cfg.maxClockSkew = SkewChoice
    /\ NoSignatureHeaders
    /\ resp = <<Written("signature", errSignatureRequired, writeJSONError(errSignatureRequired))>>

\* The handler has an authentication middleware.
Authenticating == cfg.authenticator # NoAuthenticator

Authentications == Calls("authentication", "Authenticate")

\* The token is what follows the first space of the trimmed Authorization
\* header, whose scheme is Bearer in any case.
TokenOf(header, token) ==
    LET h == TrimSpace(header)
    IN  /\ Len(h) >= 3
        /\ h[1].k = "w" /\ EqualFoldBearer(<<h[1]>>)
        /\ h[2] = SP
        /\ token = SubSeq(h, 3, Len(h))

\* C27: for a request through the authentication middleware, Authenticate
\* is invoked at most once, with a non-empty token that is the text after
\* the first space of the trimmed Authorization header and only when the
\* scheme is Bearer; the provider's DelegatePayment is invoked only after
\* an Authenticate call that returned nil.
C27_AuthenticatorDiscipline ==
    pc \in {"serving", "done"} /\ Authenticating =>
        /\ Cardinality(Authentications) <= 1
        /\ \A i \in Authentications :
              log[i].arg # << >> /\ TokenOf(req.Authorization, log[i].arg)
        /\ \A p \in Calls("handler", "provider") :
              \E i \in Authentications : i < p /\ log[i].ret.kind = "nil"

\* A request whose header needed trimming was authenticated with its key
\* and reached the provider.
C27_Witness ==
    /\ pc = "done"
    /\ Authenticating
    /\ req.Authorization = <<SP, Word("bearer"), SP, Word("valid-key"), SP>>
    /\ \E i \in Authentications : log[i].arg = ValidKey /\ log[i].ret.kind = "nil"
    /\ ProviderReached

\* The checkout session of the i-th DelegatePayment call that returned,
\* and the token it returned.
KeyOf(i) == log[i].arg.checkoutSessionID
TokenReturned(i) == log[i].ret

\* C30: all DelegatePayment calls with the same checkout_session_id return
\* a token with the ID, creation time and metadata of the first such call,
\* whatever their other fields are; one token is stored per
\* checkout_session_id; distinct checkout_session_ids get distinct IDs.
C30_IdempotentPerSession ==
    /\ \A i, j \in 1..Len(log) :
          /\ i < j /\ KeyOf(i) = KeyOf(j) =>
                /\ TokenReturned(j).ID = TokenReturned(i).ID
                /\ TokenReturned(j).Created = TokenReturned(i).Created
                /\ TokenReturned(j).Metadata = TokenReturned(i).Metadata
          /\ KeyOf(i) # KeyOf(j) => TokenReturned(i).ID # TokenReturned(j).ID
    /\ DOMAIN vault.tokens = { KeyOf(i) : i \in 1..Len(log) }
    /\ vault.tokenID = Cardinality(DOMAIN vault.tokens)
    /\ \A k \in DOMAIN vault.tokens :
          \E i \in 1..Len(log) : KeyOf(i) = k /\ TokenReturned(i).ID = vault.tokens[k].ID

\* Three calls returned: the third names the session of the first with
\* another merchant and other metadata, at a later clock reading, and its
\* caller wrote into the token it was given.
C30_Witness ==
    /\ Len(log) = 3
    /\ KeyOf(1) = KeyOf(3) /\ KeyOf(2) # KeyOf(1)
    /\ log[1].arg.merchantID # log[3].arg.merchantID
    /\ log[1].arg.metadata # log[3].arg.metadata
    /\ TokenReturned(1).Created < now
    /\ returns.last.token.Metadata["merchant_id"] = "scribbled"

====
